---- MODULE Spec2Model ----
(***************************************************************************)
(* Authentication and quota core of the caten API: session registry with   *)
(* its read-through cache, the login / logout / refresh-token routes, the  *)
(* anonymous usage ledger and the authenticate gateway dependency.         *)
(***************************************************************************)
EXTENDS Integers, Sequences, FiniteSets, TLC

(* ------------------------------ bounds -------------------------------- *)
MaxTime == 3
MaxSecrets == 3
MaxAnon == 2
MaxLimit == 2
MaxPlain == 10

(* --------------------------- program constants ------------------------ *)
\* timedelta(hours=settings.access_token_expiry_hours), in clock ticks
AccessTTL == 1
\* timedelta(days=settings.refresh_token_expiry_days) / timedelta(days=30), in clock ticks
RefreshTTL == 2
\* settings.rate_limit_requests_per_window
requests_per_window == 2
\* settings.rate_limit_window_size_seconds, in clock ticks
window_size_seconds == 2
\* settings.enable_rate_limiting
enabled == TRUE
\* settings.unauthenticated_device_max_request_count
unauthenticated_device_max_request_count == 3

Subs == {"u1"}

VARIABLES
    now,                              \* datetime.now(timezone.utc)
    google_user_auth_info,            \* table: row id -> sub
    user_session,                     \* table: session id -> row
    cache,                            \* in-memory cache: session id -> cached session_data
    next_secret,                      \* secrets.token_urlsafe(32): next fresh secret
    issued,                           \* access tokens handed out by login
    revoked,                          \* access tokens whose session a logout has invalidated
    settings,                         \* per-endpoint *_api_max_limit settings
    unauthenticated_user_api_usage,   \* table: anonymous id -> api_usage JSON
    attempts,                         \* requests made so far per anonymous id and counter
    inflight,                         \* refresh requests between their read and their write
    resp,                             \* the response of the most recent request
    admitted,                         \* requests admitted so far per anonymous id and counter
    usage_inflight,                   \* anonymous requests between their checks and their UPDATE
    rate_limit_data,                  \* RateLimiter._rate_limit_data: key -> timestamps
    lock,                             \* RateLimiter._lock: the caller holding it, 0 when free
    rl_inflight,                      \* check_rate_limit calls in progress
    rl_admitted,                      \* timestamps of the calls check_rate_limit let pass, per key
    sweeps,                           \* runs of _cleanup_expired_entries that removed timestamps
    call,                             \* the latest call of a pure function and its result
    users,                            \* table users of the device-token scheme
    refresh_tokens,                   \* table refresh_tokens of the device-token scheme
    device_inflight,                  \* device-token requests between their SELECT and their writes
    unauth_device_requests,           \* table unauth_device_requests: device_id -> request_count
    device_attempts                   \* unauthenticated requests made so far per device

vars == <<now, google_user_auth_info, user_session, cache, next_secret, issued,
          revoked, settings, unauthenticated_user_api_usage, attempts, inflight, resp,
          admitted, usage_inflight, rate_limit_data, lock, rl_inflight, rl_admitted, sweeps,
          call, users, refresh_tokens, device_inflight, unauth_device_requests,
          device_attempts>>

sessionVars == <<now, google_user_auth_info, user_session, cache, next_secret, issued, revoked>>
anonVars == <<unauthenticated_user_api_usage, attempts, admitted, usage_inflight>>
limiterVars == <<rate_limit_data, lock, rl_inflight, rl_admitted, sweeps>>
deviceVars == <<users, refresh_tokens, device_inflight, unauth_device_requests,
                device_attempts>>

(* ------------------------------ tokens -------------------------------- *)
NoToken == [signed |-> FALSE, sub |-> "", user_session_pk |-> 0, exp |-> 0]

\* jwt_service.get_token_expiry
get_token_expiry(issued_at) == issued_at + AccessTTL

\* jwt_service.generate_access_token: the signed payload
generate_access_token(sub, expire_at, user_session_pk) ==
    [signed |-> TRUE, sub |-> sub, user_session_pk |-> user_session_pk, exp |-> expire_at]

NoPayload == [sub |-> "", user_session_pk |-> 0, exp |-> 0]

\* jose jwt.decode with options {"verify_exp": verify_exp}: the signature is
\* always verified, the exp claim only on request
jwt_decode(token, verify_exp) ==
    IF ~token.signed
    THEN [error |-> "JWTError", payload |-> NoPayload]
    ELSE IF verify_exp /\ token.exp < now
    THEN [error |-> "ExpiredSignatureError", payload |-> NoPayload]
    ELSE [error |-> "",
          payload |-> [sub |-> token.sub, user_session_pk |-> token.user_session_pk,
                       exp |-> token.exp]]

\* decode_access_token verifying the expiry whatever verify_exp says
decode_access_token_always_verifies(token, verify_exp) ==
    jwt_decode(token, TRUE)

\* jwt_service.decode_access_token: the payload, or the exception raised
decode_access_token(token, verify_exp) ==
    IF jwt_decode(token, verify_exp).error = "ExpiredSignatureError" /\ ~verify_exp
    THEN jwt_decode(token, FALSE)
    ELSE jwt_decode(token, verify_exp)

\* jwt_service.decode_access_token: TRUE when it raises
\* (bad signature; an expired token raises only with verify_exp)
decode_raises(token, verify_exp) ==
    decode_access_token(token, verify_exp).error # ""

(* --------------------------- session registry ------------------------- *)
NoSession == [id |-> 0, auth_vendor_id |-> 0, access_token_state |-> "",
              refresh_token |-> 0, refresh_token_expires_at |-> 0,
              access_token_expires_at |-> 0]

\* SELECT ... FROM user_session WHERE id = :session_id
SelectSession(session_id) ==
    IF session_id \in DOMAIN user_session
    THEN [id |-> session_id,
          auth_vendor_id |-> user_session[session_id].auth_vendor_id,
          access_token_state |-> user_session[session_id].access_token_state,
          refresh_token |-> user_session[session_id].refresh_token,
          refresh_token_expires_at |-> user_session[session_id].refresh_token_expires_at,
          access_token_expires_at |-> user_session[session_id].access_token_expires_at]
    ELSE NoSession

\* in_memory_cache get_key: the stored entry, NoSession standing for None
get_key(session_id) ==
    IF session_id \in DOMAIN cache THEN cache[session_id] ELSE NoSession

\* in_memory_cache set_key: the cache after the entry is stored
set_key(session_id, session_data) ==
    (session_id :> session_data) @@ cache

\* database_service.get_user_session_by_id: the returned session_data
get_user_session_by_id(session_id) ==
    IF get_key(session_id) # NoSession
    THEN get_key(session_id)
    ELSE SelectSession(session_id)

\* database_service.get_user_session_by_id: the cache after the call
cache_after_get(session_id) ==
    IF get_key(session_id) # NoSession \/ SelectSession(session_id) = NoSession
    THEN cache
    ELSE set_key(session_id, SelectSession(session_id))

\* SELECT id FROM google_user_auth_info WHERE sub = :sub
GoogleAuthIds(sub) == {i \in DOMAIN google_user_auth_info : google_user_auth_info[i] = sub}

SessionsOf(auth_vendor_id) ==
    {s \in DOMAIN user_session : user_session[s].auth_vendor_id = auth_vendor_id}

\* ORDER BY updated_at DESC LIMIT 1
LatestSessions(auth_vendor_id) ==
    {s \in SessionsOf(auth_vendor_id) :
        \A r \in SessionsOf(auth_vendor_id) :
            user_session[r].updated_at <= user_session[s].updated_at}

NewSessionRow(auth_vendor_id, refresh_token) ==
    [auth_vendor_id |-> auth_vendor_id, access_token_state |-> "VALID",
     refresh_token |-> refresh_token,
     refresh_token_expires_at |-> now + RefreshTTL,
     access_token_expires_at |-> now + AccessTTL,
     updated_at |-> now]

\* get_or_create_user_session inserting a row whether or not one exists
get_or_create_user_session_always_inserts(session_id, auth_vendor_id, refresh_token) ==
    Append(user_session, NewSessionRow(auth_vendor_id, refresh_token))

\* database_service.get_or_create_user_session: the table after the call,
\* for the session id the call settles on
get_or_create_user_session(session_id, auth_vendor_id, refresh_token) ==
    IF session_id \in DOMAIN user_session
    THEN [user_session EXCEPT ![session_id] = NewSessionRow(auth_vendor_id, refresh_token)]
    ELSE Append(user_session, NewSessionRow(auth_vendor_id, refresh_token))

\* database_service.invalidate_user_session: the table after the UPDATE
invalidate_user_session(auth_vendor_id) ==
    [s \in DOMAIN user_session |->
        IF /\ user_session[s].auth_vendor_id = auth_vendor_id
           /\ user_session[s].access_token_state = "VALID"
        THEN [user_session[s] EXCEPT !.access_token_state = "INVALID", !.updated_at = now]
        ELSE user_session[s]]

\* access_token_expires_at: Optional[datetime] = None
NoneTime == -1

\* update_user_session_refresh_token setting the state to VALID whether or
\* not an access-token expiry is passed
update_user_session_refresh_token_always_valid(session_id, refresh_token, access_token_expires_at) ==
    IF session_id \in DOMAIN user_session
    THEN [user_session EXCEPT ![session_id] =
            [@ EXCEPT !.refresh_token = refresh_token,
                      !.refresh_token_expires_at = now + RefreshTTL,
                      !.access_token_expires_at =
                          IF access_token_expires_at # NoneTime
                          THEN access_token_expires_at ELSE @,
                      !.access_token_state = "VALID",
                      !.updated_at = now]]
    ELSE user_session

\* update_user_session_refresh_token running its UPDATE without the WHERE clause
update_user_session_refresh_token_every_row(session_id, refresh_token, access_token_expires_at) ==
    [s \in DOMAIN user_session |->
        [user_session[s] EXCEPT
            !.refresh_token = refresh_token,
            !.refresh_token_expires_at = now + RefreshTTL,
            !.access_token_expires_at =
                IF access_token_expires_at # NoneTime THEN access_token_expires_at ELSE @,
            !.access_token_state =
                IF access_token_expires_at # NoneTime THEN "VALID" ELSE @,
            !.updated_at = now]]

\* database_service.update_user_session_refresh_token: the table after the
\* UPDATE that stores refresh_token (the secret the function generated) and,
\* when access_token_expires_at is passed, that expiry and the state VALID
update_user_session_refresh_token(session_id, refresh_token, access_token_expires_at) ==
    IF session_id \in DOMAIN user_session
    THEN [user_session EXCEPT ![session_id] =
            [@ EXCEPT !.refresh_token = refresh_token,
                      !.refresh_token_expires_at = now + RefreshTTL,
                      !.access_token_expires_at =
                          IF access_token_expires_at # NoneTime
                          THEN access_token_expires_at ELSE @,
                      !.access_token_state =
                          IF access_token_expires_at # NoneTime THEN "VALID" ELSE @,
                      !.updated_at = now]]
    ELSE user_session

(* ------------------------- requests and responses --------------------- *)
NoRequest == [token |-> NoToken, anon |-> 0, path |-> "", cookie |-> 0]

NoOutput == [authenticated |-> FALSE, user_session_pk |-> 0,
             unauthenticated_user_id |-> 0, is_new_unauthenticated_user |-> FALSE,
             set_cookie |-> 0, access_token |-> NoToken, isLoggedIn |-> FALSE,
             session_invalidated |-> FALSE]

Response(op, status, errorCode, detail, req, out) ==
    [op |-> op, status |-> status, errorCode |-> errorCode, detail |-> detail,
     req |-> req, out |-> out]

\* validly signed tokens that no login of this service produced, and garbage
ForeignTokens ==
    { [signed |-> FALSE, sub |-> "x", user_session_pk |-> 0, exp |-> 0],
      [signed |-> TRUE, sub |-> "u1", user_session_pk |-> 0, exp |-> MaxTime],
      [signed |-> TRUE, sub |-> "u0", user_session_pk |-> MaxSecrets + 1, exp |-> MaxTime] }

(* ------------------------------- login -------------------------------- *)
\* routes/auth_api.login with a valid Google assertion for sub
Login(sub) ==
    /\ next_secret <= MaxSecrets
    /\ LET ids == GoogleAuthIds(sub)
           is_new_user == ids = {}
           google_auth_info_id ==
               IF is_new_user THEN Len(google_user_auth_info) + 1
               ELSE CHOOSE i \in ids : \A j \in ids : i <= j
           candidates ==
               IF is_new_user \/ SessionsOf(google_auth_info_id) = {}
               THEN {Len(user_session) + 1}
               ELSE LatestSessions(google_auth_info_id)
       IN \E session_id \in candidates :
            LET refresh_token == next_secret
                access_token == generate_access_token(sub, get_token_expiry(now), session_id)
            IN /\ google_user_auth_info' =
                      IF is_new_user THEN Append(google_user_auth_info, sub)
                      ELSE google_user_auth_info
               /\ user_session' =
                      get_or_create_user_session(session_id, google_auth_info_id, refresh_token)
               /\ next_secret' = next_secret + 1
               /\ issued' = issued \cup {access_token}
               /\ revoked' = revoked \ {access_token}
               /\ resp' = Response("login", 200, "", "",
                              NoRequest,
                              [NoOutput EXCEPT !.isLoggedIn = TRUE,
                                               !.access_token = access_token,
                                               !.user_session_pk = session_id,
                                               !.set_cookie = refresh_token])
    /\ UNCHANGED <<deviceVars, now, cache, settings, anonVars, limiterVars, call, inflight>>

\* settings.google_oauth_client_id
GoogleClientId == "client-1"

\* identity assertions: signature and expiry good or not, audience, sub and
\* email claims ("" when the claim is absent)
IdTokens ==
    [valid : BOOLEAN, aud : {GoogleClientId, "client-2"},
     sub : Subs \cup {""}, email : {"", "u1@example.com"}]

\* google id_token.verify_oauth2_token(id_token, request, audience): TRUE when
\* it raises ValueError (bad signature, expired, or another audience)
verify_oauth2_token_raises(id_token, audience) ==
    ~id_token.valid \/ id_token.aud # audience

\* auth_service.validate_google_authentication: the error_message of the
\* CatenException it raises, "" when it returns the claims
validate_google_authentication(id_token) ==
    IF verify_oauth2_token_raises(id_token, GoogleClientId)
    THEN "Invalid Google ID token"
    ELSE IF id_token.aud # GoogleClientId
    THEN "Invalid token audience"
    ELSE ""

LoginRejected(detail, id_token) ==
    Response("login", 401, "", detail,
             [token |-> NoToken, anon |-> 0, path |-> "", cookie |-> 0, id_token |-> id_token],
             NoOutput)

\* login accepting every assertion whose signature verifies and that has a sub
login_precheck_any_audience(id_token) ==
    IF ~id_token.valid
    THEN LoginRejected("Invalid Google ID token", id_token)
    ELSE IF id_token.sub = ""
    THEN LoginRejected("Missing sub field in token", id_token)
    ELSE Response("login", 200, "", "", NoRequest, NoOutput)

\* routes/auth_api.login: the checks made before the database is touched
login_precheck(id_token) ==
    IF validate_google_authentication(id_token) # ""
    THEN LoginRejected(validate_google_authentication(id_token), id_token)
    ELSE IF id_token.aud # GoogleClientId
    THEN LoginRejected("Invalid token audience", id_token)
    ELSE IF id_token.sub = ""
    THEN LoginRejected("Missing sub field in token", id_token)
    ELSE Response("login", 200, "", "", NoRequest, NoOutput)

\* routes/auth_api.login for any identity assertion
LoginRequest(id_token) ==
    IF login_precheck(id_token).status # 200
    THEN /\ resp' = login_precheck(id_token)
         /\ UNCHANGED <<deviceVars, sessionVars, settings, anonVars, inflight, limiterVars, call>>
    ELSE Login(id_token.sub)

(* ------------------------------- logout ------------------------------- *)
\* invalidate_user_session's return value: result.rowcount > 0
SessionInvalidated(sub) ==
    \E i \in GoogleAuthIds(sub) :
        /\ \A j \in GoogleAuthIds(sub) : i <= j
        /\ \E s \in SessionsOf(i) : user_session[s].access_token_state = "VALID"

\* logout answering 404 when invalidate_user_session found no VALID session
logout_response_needs_valid_session(token) ==
    LET req == [NoRequest EXCEPT !.token = token] IN
    IF decode_raises(token, FALSE)
    THEN Response("logout", 401, "", "Invalid access token", req, NoOutput)
    ELSE IF token.sub = ""
    THEN Response("logout", 401, "", "Missing sub field in token", req, NoOutput)
    ELSE IF GoogleAuthIds(token.sub) = {} \/ ~SessionInvalidated(token.sub)
    THEN Response("logout", 404, "", "User not found", req, NoOutput)
    ELSE Response("logout", 200, "", "", req,
                  [NoOutput EXCEPT !.access_token = token,
                                   !.user_session_pk = token.user_session_pk,
                                   !.session_invalidated = TRUE])

\* logout decoding the token with the expiry check switched on
logout_response_verifies_expiry(token) ==
    LET req == [NoRequest EXCEPT !.token = token] IN
    IF decode_raises(token, TRUE)
    THEN Response("logout", 401, "", "Invalid access token", req, NoOutput)
    ELSE Response("logout", 200, "", "", req,
                  [NoOutput EXCEPT !.access_token = token,
                                   !.user_session_pk = token.user_session_pk,
                                   !.session_invalidated = SessionInvalidated(token.sub)])

\* routes/auth_api.logout: the response for a Bearer token
logout_response(token) ==
    LET req == [NoRequest EXCEPT !.token = token] IN
    IF decode_raises(token, FALSE)
    THEN Response("logout", 401, "", "Invalid access token", req, NoOutput)
    ELSE IF token.sub = ""
    THEN Response("logout", 401, "", "Missing sub field in token", req, NoOutput)
    ELSE IF GoogleAuthIds(token.sub) = {}
    THEN Response("logout", 404, "", "User not found", req, NoOutput)
    ELSE Response("logout", 200, "", "", req,
                  [NoOutput EXCEPT !.access_token = token,
                                   !.user_session_pk = token.user_session_pk,
                                   !.session_invalidated = SessionInvalidated(token.sub)])

\* routes/auth_api.logout
Logout(token) ==
    /\ resp' = logout_response(token)
    /\ IF ~decode_raises(token, FALSE) /\ token.sub # "" /\ GoogleAuthIds(token.sub) # {}
       THEN LET ids == GoogleAuthIds(token.sub)
                google_auth_info_id == CHOOSE i \in ids : \A j \in ids : i <= j
            IN /\ user_session' = invalidate_user_session(google_auth_info_id)
               /\ revoked' = revoked \cup
                     {t \in issued :
                        /\ t.user_session_pk \in SessionsOf(google_auth_info_id)
                        /\ user_session[t.user_session_pk].access_token_state = "VALID"}
       ELSE UNCHANGED <<user_session, revoked>>
    /\ UNCHANGED <<deviceVars, now, google_user_auth_info, cache, next_secret, issued, settings,
                   anonVars, limiterVars, call, inflight>>

(* ---------------------------- refresh-token --------------------------- *)
\* routes/auth_api.refresh_access_token: the checks before the session read
refresh_precheck(token, cookie) ==
    LET req == [NoRequest EXCEPT !.token = token, !.cookie = cookie] IN
    IF cookie = 0
    THEN Response("refresh", 401, "LOGIN_REQUIRED", "Missing refresh token", req, NoOutput)
    ELSE IF decode_raises(token, FALSE)
    THEN Response("refresh", 401, "LOGIN_REQUIRED", "Invalid access token", req, NoOutput)
    ELSE IF token.user_session_pk = 0
    THEN Response("refresh", 401, "LOGIN_REQUIRED", "Missing user_session_pk in token", req, NoOutput)
    ELSE Response("refresh", 200, "", "", req, NoOutput)

\* routes/auth_api.refresh_access_token: the checks on the session_data read,
\* and the response when new_refresh_token is the rotated secret
refresh_response(token, cookie, session_data, new_refresh_token) ==
    LET req == [NoRequest EXCEPT !.token = token, !.cookie = cookie] IN
    IF session_data.id = 0
    THEN Response("refresh", 401, "LOGIN_REQUIRED", "Session not found", req, NoOutput)
    ELSE IF session_data.access_token_state # "VALID"
    THEN Response("refresh", 401, "LOGIN_REQUIRED", "Session is invalid", req, NoOutput)
    ELSE IF session_data.refresh_token_expires_at < now
    THEN Response("refresh", 401, "LOGIN_REQUIRED", "Refresh token expired", req, NoOutput)
    ELSE IF cookie # session_data.refresh_token
    THEN Response("refresh", 401, "LOGIN_REQUIRED", "Invalid refresh token", req, NoOutput)
    ELSE Response("refresh", 200, "", "", req,
                  [NoOutput EXCEPT !.set_cookie = new_refresh_token])

\* refresh_access_token rotating the stored secret before it checks the request
RefreshWrite_rotates_first(token, cookie, session_data) ==
    /\ resp' = refresh_response(token, cookie, session_data, next_secret)
    /\ user_session' =
          update_user_session_refresh_token(token.user_session_pk, next_secret, NoneTime)
    /\ next_secret' = next_secret + 1

\* the write half of refresh_access_token, given the session_data it read
RefreshWrite(token, cookie, session_data) ==
    LET r == refresh_response(token, cookie, session_data, next_secret) IN
    /\ resp' = r
    /\ IF r.status = 200
       THEN /\ user_session' =
                  update_user_session_refresh_token(token.user_session_pk, next_secret,
                                                    NoneTime)
            /\ next_secret' = next_secret + 1
       ELSE UNCHANGED <<user_session, next_secret>>

\* routes/auth_api.refresh_access_token, run without interruption
Refresh(token, cookie) ==
    /\ next_secret <= MaxSecrets
    /\ IF refresh_precheck(token, cookie).status # 200
       THEN /\ resp' = refresh_precheck(token, cookie)
            /\ UNCHANGED <<user_session, next_secret, cache>>
       ELSE /\ RefreshWrite(token, cookie, get_user_session_by_id(token.user_session_pk))
            /\ cache' = cache_after_get(token.user_session_pk)
    /\ UNCHANGED <<deviceVars, now, google_user_auth_info, issued, revoked, settings, anonVars, limiterVars, call, inflight>>

(* -------------- refresh-token, requests running concurrently ---------- *)
Procs == {1, 2}

Idle == [pc |-> "idle", token |-> NoToken, cookie |-> 0, session_data |-> NoSession,
         current |-> FALSE, overlap |-> FALSE, status |-> 0, detail |-> "", set_cookie |-> 0,
         expires |-> 0]

\* a refresh request reaches the server: Authorization header and refreshToken cookie
RefreshArrive(p, token, cookie) ==
    /\ inflight[p].pc \in {"idle", "done"}
    /\ refresh_precheck(token, cookie).status = 200
    /\ token.user_session_pk \in DOMAIN user_session
    /\ LET other == CHOOSE q \in Procs : q # p
           racing == inflight[other].pc \in {"queued", "read"}
       IN inflight' =
            [q \in Procs |->
               IF q = p
               THEN [Idle EXCEPT !.pc = "queued", !.token = token, !.cookie = cookie,
                                 !.current =
                                     cookie = user_session[token.user_session_pk].refresh_token,
                                 !.overlap = racing]
               ELSE [inflight[q] EXCEPT !.overlap = @ \/ racing]]
    /\ UNCHANGED <<deviceVars, now, google_user_auth_info, user_session, cache, next_secret, issued,
                   revoked, settings, anonVars, limiterVars, call, resp>>

\* refresh_access_token up to and including get_user_session_by_id
RefreshBegin(p) ==
    /\ inflight[p].pc = "queued"
    /\ inflight' = [inflight EXCEPT ![p] =
                      [@ EXCEPT !.pc = "read",
                                !.session_data =
                                    get_user_session_by_id(inflight[p].token.user_session_pk)]]
    /\ cache' = cache_after_get(inflight[p].token.user_session_pk)
    /\ UNCHANGED <<deviceVars, now, google_user_auth_info, user_session, next_secret, issued, revoked,
                   settings, anonVars, limiterVars, call, resp>>

\* refresh_access_token from the checks on session_data to the response
RefreshFinish(p) ==
    /\ inflight[p].pc = "read"
    /\ next_secret <= MaxSecrets
    /\ RefreshWrite(inflight[p].token, inflight[p].cookie, inflight[p].session_data)
    /\ inflight' = [inflight EXCEPT ![p] =
                      [@ EXCEPT !.pc = "done", !.status = resp'.status,
                                !.detail = resp'.detail,
                                !.set_cookie = resp'.out.set_cookie,
                                !.expires = IF resp'.status = 200 THEN now + RefreshTTL
                                            ELSE 0]]
    /\ UNCHANGED <<deviceVars, now, google_user_auth_info, cache, issued, revoked, settings, anonVars, limiterVars, call>>

(* ------------------------ anonymous usage ledger ---------------------- *)
NoneLimit == -1

Paths == {"/api/v2/simplify", "/api/v2/ask", "/api/v2/unmapped"}

API_ENDPOINT_TO_COUNTER_FIELD ==
    ("/api/v2/simplify" :> "simplify_api_count_so_far") @@
    ("/api/v2/ask" :> "ask_api_count_so_far")

API_ENDPOINT_TO_MAX_LIMIT_CONFIG ==
    ("/api/v2/simplify" :> "simplify_api_max_limit") @@
    ("/api/v2/ask" :> "ask_api_max_limit")

CounterFields == {API_ENDPOINT_TO_COUNTER_FIELD[p] : p \in DOMAIN API_ENDPOINT_TO_COUNTER_FIELD}
LimitConfigs == {API_ENDPOINT_TO_MAX_LIMIT_CONFIG[p] : p \in DOMAIN API_ENDPOINT_TO_MAX_LIMIT_CONFIG}

\* auth_middleware.get_api_counter_field_and_limit: <<counter_field, max_limit>>
get_api_counter_field_and_limit(path) ==
    IF path \in DOMAIN API_ENDPOINT_TO_COUNTER_FIELD
       /\ path \in DOMAIN API_ENDPOINT_TO_MAX_LIMIT_CONFIG
    THEN <<API_ENDPOINT_TO_COUNTER_FIELD[path], settings[API_ENDPOINT_TO_MAX_LIMIT_CONFIG[path]]>>
    ELSE <<"", NoneLimit>>

NoUsage == [f \in {} |-> 0]

\* database_service.get_unauthenticated_user_usage
get_unauthenticated_user_usage(user_id) ==
    IF user_id \in DOMAIN unauthenticated_user_api_usage
    THEN unauthenticated_user_api_usage[user_id]
    ELSE NoUsage

\* api_usage.get(api_name, 0)
UsageGet(api_usage, api_name) ==
    IF api_name \in DOMAIN api_usage THEN api_usage[api_name] ELSE 0

\* create_unauthenticated_user_usage leaving the calling endpoint's counter at 0
create_unauthenticated_user_usage_all_zero(api_name) ==
    Append(unauthenticated_user_api_usage,
           [f \in CounterFields \cup {api_name} |-> 0])

\* database_service.create_unauthenticated_user_usage: the table after the INSERT
create_unauthenticated_user_usage(api_name) ==
    Append(unauthenticated_user_api_usage,
           [f \in CounterFields \cup {api_name} |-> IF f = api_name THEN 1 ELSE 0])

\* increment_api_usage whose UPDATE is never committed
increment_api_usage_not_stored(user_id, api_name) ==
    unauthenticated_user_api_usage

\* increment_api_usage writing the incremented value to every counter of the record
increment_api_usage_all_fields(user_id, api_name) ==
    IF user_id \notin DOMAIN unauthenticated_user_api_usage
    THEN unauthenticated_user_api_usage
    ELSE [unauthenticated_user_api_usage EXCEPT ![user_id] =
            [f \in DOMAIN @ \cup {api_name} |-> UsageGet(@, api_name) + 1]]

\* database_service.increment_api_usage: the table after the UPDATE
increment_api_usage(user_id, api_name) ==
    IF user_id \notin DOMAIN unauthenticated_user_api_usage
    THEN unauthenticated_user_api_usage
    ELSE [unauthenticated_user_api_usage EXCEPT ![user_id] =
            [f \in DOMAIN @ \cup {api_name} |->
                IF f = api_name THEN UsageGet(@, api_name) + 1 ELSE @[f]]]

(* ------------------------------ gateway ------------------------------- *)
LoginRequired(status, req) ==
    Response("authenticate", status, "LOGIN_REQUIRED", "Please login", req, NoOutput)

\* auth_middleware.authenticate, case 1: a Bearer access token is present
authenticate_bearer(req) ==
    IF decode_raises(req.token, FALSE)
    THEN Response("authenticate", 401, "", "Invalid access token", req, NoOutput)
    ELSE IF req.token.user_session_pk = 0
    THEN LoginRequired(401, req)
    ELSE LET session_data == get_user_session_by_id(req.token.user_session_pk) IN
         IF session_data.id = 0
         THEN LoginRequired(401, req)
         ELSE IF session_data.access_token_state # "VALID"
         THEN LoginRequired(401, req)
         ELSE IF session_data.access_token_expires_at < now
         THEN Response("authenticate", 401, "TOKEN_EXPIRED",
                       "Please refresh the access token with refresh token", req, NoOutput)
         ELSE Response("authenticate", 200, "", "", req,
                       [NoOutput EXCEPT !.authenticated = TRUE,
                                        !.user_session_pk = req.token.user_session_pk])

\* case 2 comparing with > where the code compares with >=
authenticate_with_id_off_by_one(req) ==
    LET fl == get_api_counter_field_and_limit(req.path)
        api_usage == get_unauthenticated_user_usage(req.anon)
    IN IF api_usage = NoUsage
       THEN LoginRequired(401, req)
       ELSE IF fl[1] = "" \/ fl[2] = NoneLimit
       THEN LoginRequired(429, req)
       ELSE IF UsageGet(api_usage, fl[1]) > fl[2]
       THEN LoginRequired(429, req)
       ELSE Response("authenticate", 200, "", "", req,
                     [NoOutput EXCEPT !.unauthenticated_user_id = req.anon])

\* case 2 resolving the endpoint before it looks the id up
authenticate_with_id_mapping_first(req) ==
    LET fl == get_api_counter_field_and_limit(req.path)
        api_usage == get_unauthenticated_user_usage(req.anon)
    IN IF fl[1] = "" \/ fl[2] = NoneLimit
       THEN LoginRequired(429, req)
       ELSE IF api_usage = NoUsage
       THEN LoginRequired(401, req)
       ELSE IF UsageGet(api_usage, fl[1]) >= fl[2]
       THEN LoginRequired(429, req)
       ELSE Response("authenticate", 200, "", "", req,
                     [NoOutput EXCEPT !.unauthenticated_user_id = req.anon])

\* auth_middleware.authenticate, case 2: X-Unauthenticated-User-Id is present
authenticate_with_id(req) ==
    LET fl == get_api_counter_field_and_limit(req.path)
        api_usage == get_unauthenticated_user_usage(req.anon)
    IN IF api_usage = NoUsage
       THEN LoginRequired(401, req)
       ELSE IF fl[1] = "" \/ fl[2] = NoneLimit
       THEN LoginRequired(429, req)
       ELSE IF UsageGet(api_usage, fl[1]) >= fl[2]
       THEN LoginRequired(429, req)
       ELSE Response("authenticate", 200, "", "", req,
                     [NoOutput EXCEPT !.unauthenticated_user_id = req.anon])

\* case 3 creating an identity without resolving the endpoint's ceiling
authenticate_new_unmetered(req) ==
    Response("authenticate", 200, "", "", req,
             [NoOutput EXCEPT
                 !.unauthenticated_user_id = Len(unauthenticated_user_api_usage) + 1,
                 !.is_new_unauthenticated_user = TRUE])

\* auth_middleware.authenticate, case 3: neither header is present
authenticate_new(req) ==
    LET fl == get_api_counter_field_and_limit(req.path) IN
    IF fl[1] = "" \/ fl[2] = NoneLimit
    THEN LoginRequired(429, req)
    ELSE Response("authenticate", 200, "", "", req,
                  [NoOutput EXCEPT
                      !.unauthenticated_user_id = Len(unauthenticated_user_api_usage) + 1,
                      !.is_new_unauthenticated_user = TRUE])

CountAttempt(user_id, api_name) ==
    [attempts EXCEPT ![user_id] = [@ EXCEPT ![api_name] = @ + 1]]

CountAdmitted(user_id, api_name) ==
    [admitted EXCEPT ![user_id] = [@ EXCEPT ![api_name] = @ + 1]]

\* the gateway looking at the anonymous id header before the access token
authentication_case_id_first(req) ==
    IF req.anon # 0 THEN 2 ELSE IF req.token # NoToken THEN 1 ELSE 3

\* auth_middleware.authenticate: which of its three cases handles the request
authentication_case(req) ==
    IF req.token # NoToken THEN 1 ELSE IF req.anon # 0 THEN 2 ELSE 3

\* auth_middleware.authenticate
Authenticate(req) ==
    LET fl == get_api_counter_field_and_limit(req.path) IN
    /\ IF authentication_case(req) = 1
       THEN /\ resp' = authenticate_bearer(req)
            /\ cache' = IF decode_raises(req.token, FALSE) \/ req.token.user_session_pk = 0
                        THEN cache
                        ELSE cache_after_get(req.token.user_session_pk)
            /\ UNCHANGED <<unauthenticated_user_api_usage, attempts, admitted>>
       ELSE IF authentication_case(req) = 2
       THEN /\ req.anon \in DOMAIN attempts /\ fl[1] # "" /\ fl[2] # NoneLimit
                => attempts[req.anon][fl[1]] < fl[2] + 2
            /\ resp' = authenticate_with_id(req)
            /\ unauthenticated_user_api_usage' =
                  IF resp'.status = 200
                  THEN increment_api_usage(req.anon, fl[1])
                  ELSE unauthenticated_user_api_usage
            /\ attempts' =
                  IF req.anon \in DOMAIN attempts /\ fl[1] # "" /\ fl[2] # NoneLimit
                  THEN CountAttempt(req.anon, fl[1])
                  ELSE attempts
            /\ admitted' =
                  IF resp'.status = 200
                  THEN CountAdmitted(req.anon, fl[1])
                  ELSE admitted
            /\ UNCHANGED cache
       ELSE /\ Len(unauthenticated_user_api_usage) < MaxAnon
            /\ resp' = authenticate_new(req)
            /\ unauthenticated_user_api_usage' =
                  IF resp'.status = 200
                  THEN create_unauthenticated_user_usage(fl[1])
                  ELSE unauthenticated_user_api_usage
            /\ attempts' =
                  IF resp'.status = 200
                  THEN Append(attempts, [f \in CounterFields |-> IF f = fl[1] THEN 1 ELSE 0])
                  ELSE attempts
            /\ admitted' =
                  IF resp'.status = 200
                  THEN Append(admitted, [f \in CounterFields |-> IF f = fl[1] THEN 1 ELSE 0])
                  ELSE admitted
            /\ UNCHANGED cache
    /\ UNCHANGED <<deviceVars, now, google_user_auth_info, user_session, next_secret, issued, revoked,
                   settings, inflight, usage_inflight, limiterVars, call>>

(* ------------- anonymous requests running concurrently --------------- *)
IdleUsage == [pc |-> "idle", user_id |-> 0, api_name |-> "", api_usage |-> NoUsage]

\* increment_api_usage from the counter increment to the UPDATE, given the
\* api_usage JSON its SELECT returned: the table after the UPDATE
increment_api_usage_update(user_id, api_name, api_usage) ==
    [unauthenticated_user_api_usage EXCEPT ![user_id] =
        [f \in DOMAIN api_usage \cup {api_name} |->
            IF f = api_name THEN UsageGet(api_usage, api_name) + 1 ELSE api_usage[f]]]

\* authenticate, case 2, up to the call of increment_api_usage: the id lookup,
\* the endpoint resolution and the ceiling check
AnonCheck(p, req) ==
    LET fl == get_api_counter_field_and_limit(req.path) IN
    /\ usage_inflight[p].pc = "idle"
    /\ req.token = NoToken /\ req.anon \in DOMAIN unauthenticated_user_api_usage
    /\ fl[1] # "" /\ fl[2] # NoneLimit
    /\ attempts[req.anon][fl[1]] < fl[2] + 2
    /\ attempts' = CountAttempt(req.anon, fl[1])
    /\ IF authenticate_with_id(req).status = 200
       THEN /\ usage_inflight' = [usage_inflight EXCEPT ![p] =
                   [IdleUsage EXCEPT !.pc = "admitted", !.user_id = req.anon,
                                     !.api_name = fl[1]]]
            /\ admitted' = CountAdmitted(req.anon, fl[1])
            /\ UNCHANGED resp
       ELSE /\ resp' = authenticate_with_id(req)
            /\ UNCHANGED <<usage_inflight, admitted>>
    /\ UNCHANGED <<deviceVars, now, google_user_auth_info, user_session, cache, next_secret, issued,
                   revoked, settings, unauthenticated_user_api_usage, inflight,
                   limiterVars, call>>

\* increment_api_usage: the SELECT of the current api_usage
IncrementSelect(p) ==
    /\ usage_inflight[p].pc = "admitted"
    /\ usage_inflight' = [usage_inflight EXCEPT ![p] =
            [@ EXCEPT !.pc = "selected",
                      !.api_usage = get_unauthenticated_user_usage(usage_inflight[p].user_id)]]
    /\ UNCHANGED <<deviceVars, now, google_user_auth_info, user_session, cache, next_secret, issued,
                   revoked, settings, unauthenticated_user_api_usage, attempts, admitted,
                   inflight, resp, limiterVars, call>>

\* increment_api_usage: the UPDATE and commit; authenticate then returns
IncrementUpdate(p) ==
    /\ usage_inflight[p].pc = "selected"
    /\ unauthenticated_user_api_usage' =
          increment_api_usage_update(usage_inflight[p].user_id, usage_inflight[p].api_name,
                                     usage_inflight[p].api_usage)
    /\ usage_inflight' = [usage_inflight EXCEPT ![p] = IdleUsage]
    /\ resp' = Response("authenticate", 200, "", "",
                        [NoRequest EXCEPT !.anon = usage_inflight[p].user_id],
                        [NoOutput EXCEPT !.unauthenticated_user_id = usage_inflight[p].user_id])
    /\ UNCHANGED <<deviceVars, now, google_user_auth_info, user_session, cache, next_secret, issued,
                   revoked, settings, attempts, admitted, inflight, limiterVars, call>>

(* ---------------------------- rate limiter ---------------------------- *)
Keys == {<<"ip1", "simplify">>, <<"ip1", "words-explanation">>}

IdleCheck == [pc |-> "idle", key |-> <<"", "">>, current_time |-> 0,
              valid_timestamps |-> <<>>, raised |-> FALSE,
              arrived |-> 0, live |-> 0, overlap |-> 0]

\* the filter keeping only the timestamps newer than cutoff_time + 1
ValidTimestamps_prunes_early(timestamps, cutoff_time) ==
    SelectSeq(timestamps, LAMBDA ts : ts > cutoff_time + 1)

\* the filter keeping a timestamp that is exactly one window old
ValidTimestamps_keeps_boundary(timestamps, cutoff_time) ==
    SelectSeq(timestamps, LAMBDA ts : ts >= cutoff_time)

\* [ts for ts in timestamps if ts > cutoff_time]
ValidTimestamps(timestamps, cutoff_time) ==
    SelectSeq(timestamps, LAMBDA ts : ts > cutoff_time)

\* a lock that never makes a caller wait
locked_never == FALSE

\* asyncio.Lock.locked(): async with self._lock waits while it holds
locked == lock # 0

\* check_rate_limit is called for a key; a disabled limiter returns at once
\* (overlap counts the other calls for the key in progress during this one)
CheckCall(p, key) ==
    /\ rl_inflight[p].pc \in {"idle", "done"}
    /\ LET other == CHOOSE q \in Procs : q # p
           racing == /\ rl_inflight[other].pc \in {"waiting", "locked", "counted"}
                     /\ rl_inflight[other].key = key
       IN rl_inflight' =
            [q \in Procs |->
               IF q = p
               THEN [IdleCheck EXCEPT
                        !.pc = IF enabled THEN "waiting" ELSE "done",
                        !.key = key, !.arrived = now,
                        !.live = Len(ValidTimestamps(rate_limit_data[key],
                                                     now - window_size_seconds)),
                        !.overlap = IF racing THEN 1 ELSE 0]
               ELSE [rl_inflight[q] EXCEPT
                        !.overlap = IF racing /\ @ < 2 THEN @ + 1 ELSE @]]
    /\ UNCHANGED <<deviceVars, sessionVars, settings, anonVars, inflight, resp, rate_limit_data,
                   lock, rl_admitted, sweeps, call>>

\* async with self._lock: the caller gets the lock once it is free
CheckAcquire(p) ==
    /\ rl_inflight[p].pc = "waiting"
    /\ ~locked
    /\ lock' = p
    /\ rl_inflight' = [rl_inflight EXCEPT ![p] = [@ EXCEPT !.pc = "locked"]]
    /\ UNCHANGED <<deviceVars, sessionVars, settings, anonVars, inflight, resp, rate_limit_data,
                   rl_admitted, sweeps, call>>

\* check_rate_limit: read the clock, drop the expired timestamps, compare the
\* count with the ceiling; RateLimitError leaves the block and frees the lock
CheckCount(p) ==
    /\ rl_inflight[p].pc = "locked"
    /\ LET valid_timestamps ==
               ValidTimestamps(rate_limit_data[rl_inflight[p].key], now - window_size_seconds)
       IN IF Len(valid_timestamps) >= requests_per_window
          THEN /\ rl_inflight' = [rl_inflight EXCEPT ![p] =
                      [@ EXCEPT !.pc = "done", !.current_time = now, !.raised = TRUE]]
               /\ lock' = IF lock = p THEN 0 ELSE lock
          ELSE /\ rl_inflight' = [rl_inflight EXCEPT ![p] =
                      [@ EXCEPT !.pc = "counted", !.current_time = now,
                                !.valid_timestamps = valid_timestamps]]
               /\ UNCHANGED lock
    /\ UNCHANGED <<deviceVars, sessionVars, settings, anonVars, inflight, resp, rate_limit_data,
                   rl_admitted, sweeps, call>>

\* check_rate_limit: append the request's timestamp, store the list, free the lock
CheckAppend(p) ==
    /\ rl_inflight[p].pc = "counted"
    /\ rate_limit_data' = [rate_limit_data EXCEPT ![rl_inflight[p].key] =
            Append(rl_inflight[p].valid_timestamps, rl_inflight[p].current_time)]
    /\ rl_admitted' = [rl_admitted EXCEPT ![rl_inflight[p].key] =
            Append(@, rl_inflight[p].current_time)]
    /\ lock' = IF lock = p THEN 0 ELSE lock
    /\ rl_inflight' = [rl_inflight EXCEPT ![p] =
                         [@ EXCEPT !.pc = "done", !.valid_timestamps = <<>>]]
    /\ UNCHANGED <<deviceVars, sessionVars, settings, anonVars, inflight, resp, sweeps, call>>

\* a sweep that forgets every stored timestamp, expired or not
CleanupExpiredEntries_drops_all ==
    /\ ~locked
    /\ rate_limit_data' = [k \in Keys |-> <<>>]
    /\ rate_limit_data' # rate_limit_data
    /\ sweeps' = sweeps + 1
    /\ UNCHANGED <<deviceVars, sessionVars, settings, anonVars, inflight, resp, lock, rl_inflight,
                   rl_admitted, call>>

\* RateLimiter._cleanup_expired_entries, run by the background task
CleanupExpiredEntries ==
    /\ ~locked
    /\ rate_limit_data' =
          [k \in Keys |-> ValidTimestamps(rate_limit_data[k], now - window_size_seconds)]
    /\ rate_limit_data' # rate_limit_data
    /\ sweeps' = sweeps + 1
    /\ UNCHANGED <<deviceVars, sessionVars, settings, anonVars, inflight, resp, lock, rl_inflight,
                   rl_admitted, call>>

(* --------------------------- pure functions --------------------------- *)
NoCall == [op |-> "none"]

\* refresh tokens of the hashed scheme (token_service.generate_refresh_token)
PlainTokens == 1 .. MaxPlain

\* hash_refresh_token returning the same digest for every token
hash_refresh_token_constant(token) == <<"sha256", 0>>

\* token_service.hash_refresh_token: the SHA-256 hex digest of the token,
\* one digest per token
hash_refresh_token(token) == <<"sha256", token>>

\* token_service.verify_refresh_token_hash: compare_digest of the computed
\* hash with the stored one
verify_refresh_token_hash(token, token_hash) ==
    hash_refresh_token(token) = token_hash

\* the stored hash of a token is computed, then a presented token is verified
\* against it
VerifyCall(token, other) ==
    /\ call' = [op |-> "verify_refresh_token_hash", token |-> token, other |-> other,
                token_hash |-> hash_refresh_token(other),
                result |-> verify_refresh_token_hash(token, hash_refresh_token(other))]
    /\ UNCHANGED <<deviceVars, sessionVars, settings, anonVars, inflight, resp, limiterVars>>

\* a token is decoded with or without the expiry check
DecodeCall(token, verify_exp) ==
    /\ call' = [op |-> "decode_access_token", token |-> token, verify_exp |-> verify_exp,
                at |-> now,
                result |-> decode_access_token(token, verify_exp)]
    /\ UNCHANGED <<deviceVars, sessionVars, settings, anonVars, inflight, resp, limiterVars>>

\* database_service.update_user_session_refresh_token called for session_id:
\* it generates the secret, runs the UPDATE and returns secret and expiry
UpdateRefreshTokenCall(session_id, access_token_expires_at) ==
    /\ next_secret <= MaxSecrets
    /\ user_session' =
          update_user_session_refresh_token(session_id, next_secret, access_token_expires_at)
    /\ next_secret' = next_secret + 1
    /\ call' = [op |-> "update_user_session_refresh_token", session_id |-> session_id,
                access_token_expires_at |-> access_token_expires_at,
                result |-> <<next_secret, now + RefreshTTL>>]
    /\ UNCHANGED <<deviceVars, now, google_user_auth_info, cache, issued, revoked, settings,
                   anonVars, inflight, resp, limiterVars>>

(* ----------------- device-token scheme (routes/auth.py) --------------- *)
DeviceSubs == {"u1", "u2"}

Devices == {"d1", "d2"}

\* the Google assertions offered to google_login: verification succeeds or
\* not, sub and email claims ("" when the claim is absent)
DeviceIdTokens ==
    [valid : BOOLEAN, aud : {GoogleClientId}, sub : DeviceSubs \cup {""},
     email : {"", "mail"}]

\* auth.google_auth.verify_google_id_token: TRUE when it raises ValueError
verify_google_id_token_raises(id_token, client_id) ==
    \/ verify_oauth2_token_raises(id_token, client_id)
    \/ id_token.sub = ""
    \/ id_token.email = ""

\* select(users).where(users.c.google_sub == google_sub)
UserIds(google_sub) == {i \in DOMAIN users : users[i].google_sub = google_sub}

\* routes/auth.google_login
GoogleLogin(id_token, device_id) ==
    LET req == [id_token |-> id_token, device_id |-> device_id] IN
    /\ Len(refresh_tokens) < MaxSecrets
    /\ IF device_id = ""
       THEN /\ resp' = Response("google_login", 400, "BAD_REQUEST",
                                "Missing id_token or device_id", req, NoOutput)
            /\ UNCHANGED <<users, refresh_tokens>>
       ELSE IF verify_google_id_token_raises(id_token, GoogleClientId)
       THEN /\ resp' = Response("google_login", 401, "INVALID_GOOGLE_TOKEN",
                                "Google token invalid or expired", req, NoOutput)
            /\ UNCHANGED <<users, refresh_tokens>>
       ELSE LET user_row == UserIds(id_token.sub)
                user_id == IF user_row # {} THEN CHOOSE i \in user_row : TRUE
                           ELSE Len(users) + 1
                refresh_token == Len(refresh_tokens) + 1
            IN /\ users' =
                     IF user_row # {}
                     THEN [users EXCEPT ![user_id] =
                             [@ EXCEPT !.email = id_token.email, !.is_active = TRUE]]
                     ELSE Append(users, [google_sub |-> id_token.sub,
                                         email |-> id_token.email, is_active |-> TRUE])
               /\ refresh_tokens' =
                     Append(refresh_tokens,
                            [user_id |-> user_id,
                             token_hash |-> hash_refresh_token(refresh_token),
                             device_id |-> device_id,
                             expires_at |-> now + RefreshTTL,
                             revoked_at |-> NoneTime])
               /\ resp' = Response("google_login", 200, "", "", req,
                                   [user_id |-> user_id, refresh_token |-> refresh_token])
    /\ UNCHANGED <<device_inflight, unauth_device_requests, device_attempts, sessionVars, settings, anonVars,
                   inflight, limiterVars, call>>

\* logout revoking, when revoke_all is false, only the user's newest token
logout_revoke_newest_only(user_id, revoke_all) ==
    [r \in DOMAIN refresh_tokens |->
        IF /\ refresh_tokens[r].user_id = user_id
           /\ refresh_tokens[r].revoked_at = NoneTime
           /\ revoke_all \/ \A q \in DOMAIN refresh_tokens :
                               refresh_tokens[q].user_id = user_id => q <= r
        THEN [refresh_tokens[r] EXCEPT !.revoked_at = now]
        ELSE refresh_tokens[r]]

\* routes/auth.logout: the refresh_tokens table after the UPDATE of the
\* branch revoke_all selects
logout_revoke(user_id, revoke_all) ==
    IF revoke_all
    THEN [r \in DOMAIN refresh_tokens |->
            IF /\ refresh_tokens[r].user_id = user_id
               /\ refresh_tokens[r].revoked_at = NoneTime
            THEN [refresh_tokens[r] EXCEPT !.revoked_at = now]
            ELSE refresh_tokens[r]]
    ELSE [r \in DOMAIN refresh_tokens |->
            IF /\ refresh_tokens[r].user_id = user_id
               /\ refresh_tokens[r].revoked_at = NoneTime
            THEN [refresh_tokens[r] EXCEPT !.revoked_at = now]
            ELSE refresh_tokens[r]]

\* routes/auth.logout behind get_current_user, for the access token of user_id
DeviceLogout(user_id, revoke_all) ==
    LET req == [user_id |-> user_id, revoke_all |-> revoke_all] IN
    /\ IF user_id \notin DOMAIN users \/ ~users[user_id].is_active
       THEN /\ resp' = Response("device_logout", 401, "INVALID_ACCESS_TOKEN",
                                "User not found or inactive", req, NoOutput)
            /\ UNCHANGED refresh_tokens
       ELSE /\ refresh_tokens' = logout_revoke(user_id, revoke_all)
            /\ resp' = Response("device_logout", 200, "", "", req, [ok |-> TRUE])
    /\ UNCHANGED <<users, device_inflight, unauth_device_requests, device_attempts, sessionVars, settings,
                   anonVars, inflight, limiterVars, call>>

(* ------------- unauthenticated device counting (auth_dep) ------------- *)
\* no Authorization header
NoAuthorization == [state |-> "absent", sub |-> 0]

\* Bearer access tokens of the device-token scheme: verify_access_token
\* accepts the token, or raises because it has expired or is malformed
Authorizations == [state : {"ok", "expired", "malformed"}, sub : 1 .. Cardinality(DeviceSubs)]

\* INSERT ... ON DUPLICATE KEY UPDATE request_count = request_count + 1
\* that leaves the row of a known device as it is
upsert_device_request_insert_only(x_device_id) ==
    [unauth_device_requests EXCEPT ![x_device_id] = IF @ = 0 THEN 1 ELSE @]

\* auth_dep.get_current_user_or_device: the table after the upsert that
\* inserts the device with request_count 1 or adds 1 to its request_count
upsert_device_request(x_device_id) ==
    [unauth_device_requests EXCEPT ![x_device_id] = @ + 1]

\* the number of unauthenticated requests the model lets a device make
MaxDeviceRequests == unauthenticated_device_max_request_count + 2

\* auth_dep.get_current_user_or_device
GetCurrentUserOrDevice(authorization, x_device_id) ==
    LET req == [authorization |-> authorization, x_device_id |-> x_device_id] IN
    /\ IF authorization # NoAuthorization
       THEN /\ resp' =
                 IF authorization.state = "expired"
                 THEN Response("get_current_user_or_device", 401, "ACCESS_TOKEN_EXPIRED",
                               "Access token expired; please refresh", req, NoOutput)
                 ELSE IF authorization.state = "malformed"
                 THEN Response("get_current_user_or_device", 401, "INVALID_ACCESS_TOKEN",
                               "Access token invalid or malformed", req, NoOutput)
                 ELSE IF authorization.sub \notin DOMAIN users
                         \/ ~users[authorization.sub].is_active
                 THEN Response("get_current_user_or_device", 401, "INVALID_ACCESS_TOKEN",
                               "User not found or inactive", req, NoOutput)
                 ELSE Response("get_current_user_or_device", 200, "", "", req,
                               [user_id |-> authorization.sub, device_id |-> ""])
            /\ UNCHANGED <<unauth_device_requests, device_attempts>>
       ELSE IF x_device_id = ""
       THEN /\ resp' = Response("get_current_user_or_device", 400, "BAD_REQUEST",
                                "X-DEVICE-ID header is required", req, NoOutput)
            /\ UNCHANGED <<unauth_device_requests, device_attempts>>
       ELSE /\ device_attempts[x_device_id] < MaxDeviceRequests
            /\ unauth_device_requests' = upsert_device_request(x_device_id)
            /\ device_attempts' = [device_attempts EXCEPT ![x_device_id] = @ + 1]
            /\ resp' =
                 IF unauth_device_requests'[x_device_id]
                        >= unauthenticated_device_max_request_count
                 THEN Response("get_current_user_or_device", 401,
                               "TOKEN_NOT_PROVIDED_LIMIT_EXCEEDED",
                               "Request token missing and unauthenticated device exceeded allowed anonymous requests",
                               req, NoOutput)
                 ELSE Response("get_current_user_or_device", 200, "", "", req,
                               [user_id |-> 0, device_id |-> x_device_id])
    /\ UNCHANGED <<users, refresh_tokens, device_inflight, sessionVars, settings, anonVars,
                   inflight, limiterVars, call>>

(* --------- device-token scheme, requests running concurrently --------- *)
IdleDevice == [pc |-> "idle"]

\* a finished device-token request and its response
DoneDevice(op, req, status, errorCode, out) ==
    [pc |-> "done", op |-> op, req |-> req, status |-> status, errorCode |-> errorCode,
     out |-> out]

\* insert(refresh_tokens).values(...): the table with the row of a fresh token
InsertRefreshToken(table, user_id, refresh_token, device_id) ==
    Append(table,
           [user_id |-> user_id,
            token_hash |-> hash_refresh_token(refresh_token),
            device_id |-> device_id,
            expires_at |-> now + RefreshTTL,
            revoked_at |-> NoneTime])

\* routes/auth.google_login up to its SELECT on users, for an assertion that
\* passes verification
GoogleLoginSelect(p, id_token, device_id) ==
    /\ device_inflight[p].pc \in {"idle", "done"}
    /\ device_id # ""
    /\ ~verify_google_id_token_raises(id_token, GoogleClientId)
    /\ device_inflight' = [device_inflight EXCEPT ![p] =
          [pc |-> "google_login", id_token |-> id_token, device_id |-> device_id,
           user_row |-> UserIds(id_token.sub)]]
    /\ UNCHANGED <<users, refresh_tokens, unauth_device_requests, device_attempts, sessionVars, settings,
                   anonVars, inflight, limiterVars, call, resp>>

\* Column("google_sub", String(255), unique=True): TRUE when the INSERT of
\* google_login, issued because its SELECT found no row, raises IntegrityError
users_insert_raises(google_sub, user_row) ==
    user_row = {} /\ UserIds(google_sub) # {}

\* routes/auth.google_login from the UPDATE or INSERT on users to the response
GoogleLoginWrite(p) ==
    LET f == device_inflight[p]
        req == [id_token |-> f.id_token, device_id |-> f.device_id]
    IN
    /\ f.pc = "google_login"
    /\ Len(refresh_tokens) < MaxSecrets
    /\ IF users_insert_raises(f.id_token.sub, f.user_row)
       THEN \* except Exception: rollback, 500
            /\ device_inflight' = [device_inflight EXCEPT ![p] =
                  DoneDevice("google_login", req, 500, "INTERNAL_ERROR", NoOutput)]
            /\ resp' = Response("google_login", 500, "INTERNAL_ERROR",
                                "Internal server error", req, NoOutput)
            /\ UNCHANGED <<users, refresh_tokens>>
       ELSE LET user_id == IF f.user_row # {} THEN CHOOSE i \in f.user_row : TRUE
                           ELSE Len(users) + 1
                refresh_token == Len(refresh_tokens) + 1
                out == [user_id |-> user_id, refresh_token |-> refresh_token]
            IN /\ users' =
                     IF f.user_row # {}
                     THEN [users EXCEPT ![user_id] =
                             [@ EXCEPT !.email = f.id_token.email, !.is_active = TRUE]]
                     ELSE Append(users, [google_sub |-> f.id_token.sub,
                                         email |-> f.id_token.email, is_active |-> TRUE])
               /\ refresh_tokens' = InsertRefreshToken(refresh_tokens, user_id, refresh_token, f.device_id)
               /\ device_inflight' = [device_inflight EXCEPT ![p] =
                     DoneDevice("google_login", req, 200, "", out)]
               /\ resp' = Response("google_login", 200, "", "", req, out)
    /\ UNCHANGED <<unauth_device_requests, device_attempts, sessionVars, settings, anonVars, inflight,
                   limiterVars, call>>

\* the rows refresh_token selects: of the device, not revoked, not expired
TokenRows(device_id) ==
    {r \in DOMAIN refresh_tokens :
        /\ refresh_tokens[r].device_id = device_id
        /\ refresh_tokens[r].revoked_at = NoneTime
        /\ refresh_tokens[r].expires_at > now}

\* the rows among them whose hash the presented token verifies against
MatchedTokens(refresh_token, device_id) ==
    {r \in TokenRows(device_id) :
        verify_refresh_token_hash(refresh_token, refresh_tokens[r].token_hash)}

\* routes/auth.refresh_token up to the match of the presented token: a
\* request without a match is answered 401 at once
DeviceRefreshSelect(p, refresh_token, device_id) ==
    LET req == [refresh_token |-> refresh_token, device_id |-> device_id]
        matched == MatchedTokens(refresh_token, device_id)
    IN
    /\ device_inflight[p].pc \in {"idle", "done"}
    /\ IF matched = {}
       THEN /\ device_inflight' = [device_inflight EXCEPT ![p] =
                  DoneDevice("refresh_token", req, 401, "INVALID_REFRESH_TOKEN", NoOutput)]
            /\ resp' = Response("refresh_token", 401, "INVALID_REFRESH_TOKEN",
                                "Refresh token invalid or revoked", req, NoOutput)
       ELSE /\ \E matched_token \in matched :
                  device_inflight' = [device_inflight EXCEPT ![p] =
                      [pc |-> "refresh_token", refresh_token |-> refresh_token,
                       device_id |-> device_id, matched_token |-> matched_token]]
            /\ UNCHANGED resp
    /\ UNCHANGED <<users, refresh_tokens, unauth_device_requests, device_attempts, sessionVars, settings,
                   anonVars, inflight, limiterVars, call>>

\* routes/auth.refresh_token from the revocation of the matched row to the
\* response
DeviceRefreshWrite(p) ==
    LET f == device_inflight[p]
        req == [refresh_token |-> f.refresh_token, device_id |-> f.device_id]
    IN
    /\ f.pc = "refresh_token"
    /\ Len(refresh_tokens) < MaxSecrets
    /\ LET user_id == refresh_tokens[f.matched_token].user_id
           new_refresh_token == Len(refresh_tokens) + 1
           out == [user_id |-> user_id, refresh_token |-> new_refresh_token]
       IN /\ refresh_tokens' =
                InsertRefreshToken([refresh_tokens EXCEPT ![f.matched_token].revoked_at = now],
                                   user_id, new_refresh_token, f.device_id)
          /\ device_inflight' = [device_inflight EXCEPT ![p] =
                DoneDevice("refresh_token", req, 200, "", out)]
          /\ resp' = Response("refresh_token", 200, "", "", req, out)
    /\ UNCHANGED <<users, unauth_device_requests, device_attempts, sessionVars, settings, anonVars, inflight,
                   limiterVars, call>>

(* ------------------------- environment steps -------------------------- *)
\* the clock advances
Tick ==
    /\ now < MaxTime
    /\ now' = now + 1
    /\ UNCHANGED <<deviceVars, google_user_auth_info, user_session, cache, next_secret, issued, revoked,
                   settings, anonVars, limiterVars, call, inflight, resp>>

\* a cache entry reaches the end of its time to live
CacheExpire(session_id) ==
    /\ session_id \in DOMAIN cache
    /\ cache' = [s \in DOMAIN cache \ {session_id} |-> cache[s]]
    /\ UNCHANGED <<deviceVars, now, google_user_auth_info, user_session, next_secret, issued, revoked,
                   settings, anonVars, limiterVars, call, inflight, resp>>

(* --------------------------- specifications --------------------------- *)
\* config.Settings declares none of the *_api_max_limit fields
DefaultSettings == [c \in LimitConfigs |-> NoneLimit]

InitTables ==
    /\ now = 0
    /\ google_user_auth_info = <<>>
    /\ user_session = <<>>
    /\ cache = <<>>
    /\ next_secret = 1
    /\ issued = {}
    /\ revoked = {}
    /\ unauthenticated_user_api_usage = <<>>
    /\ attempts = <<>>
    /\ admitted = <<>>
    /\ usage_inflight = [p \in Procs |-> IdleUsage]
    /\ rate_limit_data = [k \in Keys |-> <<>>]
    /\ lock = 0
    /\ rl_inflight = [p \in Procs |-> IdleCheck]
    /\ rl_admitted = [k \in Keys |-> <<>>]
    /\ sweeps = 0
    /\ call = NoCall
    /\ users = <<>>
    /\ refresh_tokens = <<>>
    /\ device_inflight = [p \in Procs |-> IdleDevice]
    /\ unauth_device_requests = [d \in Devices |-> 0]
    /\ device_attempts = [d \in Devices |-> 0]
    /\ inflight = [p \in Procs |-> Idle]
    /\ resp = Response("none", 0, "", "", NoRequest, NoOutput)

Init == InitTables /\ settings = DefaultSettings

BearerRequests ==
    {[NoRequest EXCEPT !.token = t, !.path = "/api/v2/simplify"] : t \in issued \cup ForeignTokens}

Cookies == 0 .. (next_secret - 1)

DoLogin == \E sub \in Subs : Login(sub)
DoLogout == \E t \in issued \cup ForeignTokens : Logout(t)
DoRefresh == \E t \in issued \cup ForeignTokens : \E c \in Cookies : Refresh(t, c)
DoAuthenticateBearer == \E req \in BearerRequests : Authenticate(req)
DoCacheExpire == \E s \in DOMAIN cache : CacheExpire(s)

\* the session side: requests handled one after another
Next ==
    \/ DoLogin
    \/ DoLogout
    \/ DoRefresh
    \/ DoAuthenticateBearer
    \/ DoCacheExpire
    \/ Tick

Spec == Init /\ [][Next]_vars

\* the anonymous side, for every setting of the ceilings
InitAnon ==
    /\ InitTables
    /\ settings \in {st \in [LimitConfigs -> {NoneLimit} \cup (0 .. MaxLimit)] :
                        st["ask_api_max_limit"] \in {NoneLimit, 1}}

AnonRequests ==
    {[NoRequest EXCEPT !.anon = a, !.path = p] :
        a \in 0 .. (MaxAnon + 1), p \in Paths}

DoAuthenticateAnon == \E req \in AnonRequests : Authenticate(req)

NextAnon == DoAuthenticateAnon

SpecAnon == InitAnon /\ [][NextAnon]_vars

\* the anonymous side with two requests of known ids in flight
InitAnonRace == InitTables /\ settings = [c \in LimitConfigs |-> MaxLimit]

NewAnonRequests == {r \in AnonRequests : r.anon = 0}

\* one anonymous caller obtains its id; its later requests may overlap
DoAuthenticateNew ==
    /\ unauthenticated_user_api_usage = <<>>
    /\ \E req \in NewAnonRequests : Authenticate(req)
DoAnonCheck == \E p \in Procs : \E req \in AnonRequests : AnonCheck(p, req)
DoIncrementSelect == \E p \in Procs : IncrementSelect(p)
DoIncrementUpdate == \E p \in Procs : IncrementUpdate(p)

NextAnonRace ==
    \/ DoAuthenticateNew
    \/ DoAnonCheck
    \/ DoIncrementSelect
    \/ DoIncrementUpdate

SpecAnonRace == InitAnonRace /\ [][NextAnonRace]_vars

\* the login route offered every identity assertion
DoLoginRequest == \E id_token \in IdTokens : LoginRequest(id_token)

NextLogin ==
    \/ DoLoginRequest
    \/ DoLogout
    \/ Tick

SpecLogin == Init /\ [][NextLogin]_vars

\* the refresh-token hash, for every pair of tokens
DoVerifyCall == \E token \in PlainTokens : \E other \in PlainTokens : VerifyCall(token, other)

NextHash == DoVerifyCall

SpecHash == Init /\ [][NextHash]_vars

\* the access-token codec: tokens generated at any time for any session, and
\* tokens without a valid signature, decoded at any time
GeneratedTokens ==
    {generate_access_token(sub, get_token_expiry(issued_at), pk) :
        sub \in Subs, issued_at \in 0 .. MaxTime, pk \in 1 .. MaxSecrets}

DoDecodeCall ==
    \E token \in GeneratedTokens \cup ForeignTokens : \E verify_exp \in BOOLEAN :
        DecodeCall(token, verify_exp)

NextCodec ==
    \/ DoDecodeCall
    \/ Tick

SpecCodec == Init /\ [][NextCodec]_vars

\* the rate limiter with two callers from one client address to one endpoint
ContendedKey == <<"ip1", "simplify">>

DoCheckCall == \E p \in Procs : CheckCall(p, ContendedKey)
DoCheckAcquire == \E p \in Procs : CheckAcquire(p)
DoCheckCount == \E p \in Procs : CheckCount(p)
DoCheckAppend == \E p \in Procs : CheckAppend(p)

NextLimiter ==
    \/ DoCheckCall
    \/ DoCheckAcquire
    \/ DoCheckCount
    \/ DoCheckAppend
    \/ CleanupExpiredEntries
    \/ Tick

SpecLimiter == Init /\ [][NextLimiter]_vars

\* the gateway offered requests that carry an access token next to an
\* anonymous id, once an anonymous identity exists
MixedRequests ==
    {[NoRequest EXCEPT !.token = t, !.anon = a, !.path = "/api/v2/simplify"] :
        t \in issued \cup ForeignTokens, a \in 0 .. MaxAnon}

DoAuthenticateMixed == \E req \in MixedRequests : Authenticate(req)

\* the first login of the identity
DoFirstLogin == user_session = <<>> /\ DoLogin

NextMixed ==
    \/ DoAuthenticateNew
    \/ DoAuthenticateMixed
    \/ DoFirstLogin
    \/ DoLogout
    \/ Tick

SpecMixed == InitAnonRace /\ [][NextMixed]_vars

\* the two logout flows: the session registry of an identity that holds
\* several sessions (their refresh secrets are older than every secret the
\* model hands out), and the device-token scheme
SessionTables ==
    {<<[auth_vendor_id |-> 1, access_token_state |-> st[1], refresh_token |-> MaxSecrets + 1,
        refresh_token_expires_at |-> RefreshTTL, access_token_expires_at |-> AccessTTL,
        updated_at |-> 0],
       [auth_vendor_id |-> owner, access_token_state |-> st[2], refresh_token |-> MaxSecrets + 2,
        refresh_token_expires_at |-> RefreshTTL, access_token_expires_at |-> AccessTTL,
        updated_at |-> 0],
       [auth_vendor_id |-> 2, access_token_state |-> "VALID", refresh_token |-> MaxSecrets + 3,
        refresh_token_expires_at |-> RefreshTTL, access_token_expires_at |-> AccessTTL,
        updated_at |-> 0]>> :
        owner \in {1, 2}, st \in [1 .. 2 -> {"VALID", "INVALID"}]}

InitDevices ==
    /\ now = 0
    /\ google_user_auth_info \in {<<>>, <<"u1", "u0">>}
    /\ user_session \in IF google_user_auth_info = <<>> THEN {<<>>} ELSE SessionTables
    /\ cache = <<>>
    /\ next_secret = 1
    /\ issued = {generate_access_token("u1", AccessTTL, s) : s \in SessionsOf(1)}
    /\ revoked = {}
    /\ settings = DefaultSettings
    /\ unauthenticated_user_api_usage = <<>>
    /\ attempts = <<>>
    /\ admitted = <<>>
    /\ usage_inflight = [p \in Procs |-> IdleUsage]
    /\ rate_limit_data = [k \in Keys |-> <<>>]
    /\ lock = 0
    /\ rl_inflight = [p \in Procs |-> IdleCheck]
    /\ rl_admitted = [k \in Keys |-> <<>>]
    /\ sweeps = 0
    /\ call = NoCall
    /\ users = <<>>
    /\ refresh_tokens = <<>>
    /\ device_inflight = [p \in Procs |-> IdleDevice]
    /\ unauth_device_requests = [d \in Devices |-> 0]
    /\ device_attempts = [d \in Devices |-> 0]
    /\ inflight = [p \in Procs |-> Idle]
    /\ resp = Response("none", 0, "", "", NoRequest, NoOutput)

DoGoogleLogin ==
    /\ user_session = <<>>
    /\ \E id_token \in DeviceIdTokens : \E device_id \in Devices \cup {""} :
          GoogleLogin(id_token, device_id)
DoDeviceLogout ==
    /\ user_session = <<>>
    /\ \E user_id \in 1 .. (Cardinality(DeviceSubs) + 1) : \E revoke_all \in BOOLEAN :
          DeviceLogout(user_id, revoke_all)

NextDevices ==
    \/ DoGoogleLogin
    \/ DoDeviceLogout
    \/ DoLogout

SpecDevices == InitDevices /\ [][NextDevices]_vars

\* logins and logouts over a registry in which an identity may hold several
\* sessions
NextSessions ==
    \/ DoLogin
    \/ DoLogout
    \/ Tick

SpecSessions == InitDevices /\ [][NextSessions]_vars

\* update_user_session_refresh_token called for any session id, with and
\* without an access-token expiry
DoUpdateRefreshTokenCall ==
    \E session_id \in 1 .. (Len(user_session) + 1) :
    \E access_token_expires_at \in {NoneTime, get_token_expiry(now)} :
        UpdateRefreshTokenCall(session_id, access_token_expires_at)

NextRotate ==
    \/ DoUpdateRefreshTokenCall
    \/ Tick

SpecRotate == InitDevices /\ [][NextRotate]_vars

\* the refresh route with two requests in flight
DoRefreshArrive ==
    \E p \in Procs : \E t \in issued : \E c \in Cookies \ {0} : RefreshArrive(p, t, c)
DoRefreshBegin == \E p \in Procs : RefreshBegin(p)
DoRefreshFinish == \E p \in Procs : RefreshFinish(p)

NextRace ==
    \/ DoLogin
    \/ DoRefreshArrive
    \/ DoRefreshBegin
    \/ DoRefreshFinish
    \/ DoCacheExpire

SpecRace == Init /\ [][NextRace]_vars

\* two refresh requests in flight for the session of one login, while the
\* clock runs and the gateway serves requests of the same session
NextRotateRace ==
    \/ DoFirstLogin
    \/ DoRefreshArrive
    \/ DoRefreshBegin
    \/ DoRefreshFinish
    \/ DoCacheExpire
    \/ DoAuthenticateBearer
    \/ Tick

SpecRotateRace == Init /\ [][NextRotateRace]_vars

\* the device-token scheme with two requests in flight: logins with
\* assertions that pass verification, and refreshes of any token handed out
ValidDeviceIdTokens ==
    {t \in DeviceIdTokens : ~verify_google_id_token_raises(t, GoogleClientId)}

DoGoogleLoginSelect ==
    \E p \in Procs : \E id_token \in ValidDeviceIdTokens : \E device_id \in Devices :
        GoogleLoginSelect(p, id_token, device_id)
DoGoogleLoginWrite == \E p \in Procs : GoogleLoginWrite(p)
DoDeviceRefreshSelect ==
    \E p \in Procs : \E refresh_token \in 1 .. Len(refresh_tokens) : \E device_id \in Devices :
        DeviceRefreshSelect(p, refresh_token, device_id)
DoDeviceRefreshWrite == \E p \in Procs : DeviceRefreshWrite(p)

NextDeviceRace ==
    \/ DoGoogleLoginSelect
    \/ DoGoogleLoginWrite
    \/ DoDeviceRefreshSelect
    \/ DoDeviceRefreshWrite

SpecDeviceRace == Init /\ [][NextDeviceRace]_vars

\* requests through get_current_user_or_device, with and without an
\* access token, once at most one user has signed in
DoFirstGoogleLogin ==
    /\ users = <<>>
    /\ DoGoogleLogin

DoGetCurrentUserOrDevice ==
    \E authorization \in Authorizations \cup {NoAuthorization} :
    \E x_device_id \in Devices \cup {""} :
        GetCurrentUserOrDevice(authorization, x_device_id)

NextUnauth ==
    \/ DoFirstGoogleLogin
    \/ DoGetCurrentUserOrDevice

SpecUnauth == Init /\ [][NextUnauth]_vars

(* ====================== anonymous usage ledger ======================= *)
\* the anonymous id the latest gateway response is about
RespAnonId ==
    IF resp.req.anon # 0 THEN resp.req.anon ELSE resp.out.unauthenticated_user_id

IsAnonResponse == resp.op = "authenticate" /\ resp.req.token = NoToken

\* C4: for an anonymous id A and an endpoint E with ceiling C >= 1, the n-th
\* call of A to E (the id-creating call is the first) is admitted when n <= C
\* and rejected with HTTP 429 when n > C; the stored counter is min(n, C).
C4_CeilingAfterCCalls ==
    IsAnonResponse /\ RespAnonId \in DOMAIN unauthenticated_user_api_usage =>
        LET fl == get_api_counter_field_and_limit(resp.req.path) IN
        fl[1] # "" /\ fl[2] >= 1 =>
            LET n == attempts[RespAnonId][fl[1]]
                count == unauthenticated_user_api_usage[RespAnonId][fl[1]]
            IN /\ n <= fl[2] => resp.status = 200 /\ count = n
               /\ n > fl[2] => resp.status = 429 /\ count = fl[2]

\* an id has been turned away twice at a ceiling of 2: its 3rd and 4th call
C4_Witness ==
    /\ IsAnonResponse /\ resp.status = 429
    /\ RespAnonId \in DOMAIN unauthenticated_user_api_usage
    /\ LET fl == get_api_counter_field_and_limit(resp.req.path) IN
         /\ fl[1] # "" /\ fl[2] = 2
         /\ attempts[RespAnonId][fl[1]] = 4
         /\ unauthenticated_user_api_usage[RespAnonId][fl[1]] = 2

\* the anonymous id and counter field a gateway step is about, read off its response
StepAnonId ==
    IF resp'.req.anon # 0 THEN resp'.req.anon ELSE resp'.out.unauthenticated_user_id
StepField == get_api_counter_field_and_limit(resp'.req.path)[1]

\* C5: an anonymous call by A to E changes no counter other than A's counter
\* for E, and the decision every other (id, endpoint) pair would get is the
\* same after the call as before it.
C5_OnlyOwnCounterChanges ==
    [][(\E req \in AnonRequests : Authenticate(req)) =>
         /\ \A a \in DOMAIN unauthenticated_user_api_usage :
              /\ a \in DOMAIN unauthenticated_user_api_usage'
              /\ \A f \in DOMAIN unauthenticated_user_api_usage[a] :
                   a # StepAnonId \/ f # StepField =>
                      unauthenticated_user_api_usage'[a][f] = unauthenticated_user_api_usage[a][f]
         /\ \A a \in DOMAIN unauthenticated_user_api_usage' \ DOMAIN unauthenticated_user_api_usage :
              \A f \in DOMAIN unauthenticated_user_api_usage'[a] :
                   f # StepField => unauthenticated_user_api_usage'[a][f] = 0
         /\ \A r \in AnonRequests :
              /\ r.anon \in DOMAIN unauthenticated_user_api_usage
              /\ r.anon # StepAnonId \/ r.path # resp'.req.path
              => authenticate_with_id(r)'.status = authenticate_with_id(r).status
      ]_vars

\* an id at its ceiling on one endpoint, still below it on the other, next to
\* a second id
C5_Witness ==
    /\ IsAnonResponse /\ resp.status = 200
    /\ Len(unauthenticated_user_api_usage) = 2
    /\ \E a \in DOMAIN unauthenticated_user_api_usage :
         /\ a = resp.req.anon
         /\ unauthenticated_user_api_usage[a]["simplify_api_count_so_far"] = 2
         /\ unauthenticated_user_api_usage[a]["ask_api_count_so_far"] = 0

Unresolved(path) ==
    \/ get_api_counter_field_and_limit(path)[1] = ""
    \/ get_api_counter_field_and_limit(path)[2] = NoneLimit

C1_RejectedAfterLogout ==
    /\ resp.op = "authenticate"
    /\ resp.req.token.signed
    /\ resp.req.token.user_session_pk \in DOMAIN user_session
    /\ user_session[resp.req.token.user_session_pk].access_token_state = "INVALID"
    => resp.status = 401 /\ resp.errorCode = "LOGIN_REQUIRED"

\* C2: a refresh of a VALID session whose refresh expiry has not passed
\* succeeds, and rotates the stored secret to the one it returns, exactly when
\* the presented secret is the stored one; any other secret, a rotated-out one
\* included, is rejected as an invalid refresh token.
C2_RotatedSecretRejected ==
    [][\A t \in issued : \A c \in Cookies \ {0} :
          /\ Refresh(t, c)
          /\ user_session[t.user_session_pk].access_token_state = "VALID"
          /\ user_session[t.user_session_pk].refresh_token_expires_at >= now
          => IF c = user_session[t.user_session_pk].refresh_token
             THEN /\ resp'.status = 200
                  /\ resp'.out.set_cookie # c
                  /\ user_session'[t.user_session_pk].refresh_token = resp'.out.set_cookie
             ELSE /\ resp'.status = 401
                  /\ resp'.detail = "Invalid refresh token"
      ]_vars

\* C3: of two refresh requests for one session that were in flight together
\* and both presented the secret stored when they arrived, exactly one
\* succeeds and the other is rejected as an invalid refresh token.
C3_OneOfTwoRacingRefreshes ==
    \A p \in Procs : \A q \in Procs \ {p} :
        /\ inflight[p].pc = "done" /\ inflight[q].pc = "done"
        /\ inflight[p].overlap /\ inflight[q].overlap
        /\ inflight[p].current /\ inflight[q].current
        /\ inflight[p].token.user_session_pk = inflight[q].token.user_session_pk
        /\ inflight[p].cookie = inflight[q].cookie
        => \/ inflight[p].status = 200 /\ inflight[q].status = 401
              /\ inflight[q].detail = "Invalid refresh token"
           \/ inflight[q].status = 200 /\ inflight[p].status = 401
              /\ inflight[p].detail = "Invalid refresh token"

\* C8: for a signed access token the gateway answers LOGIN_REQUIRED when the
\* token has no session reference, the session does not exist or its state is
\* not VALID; otherwise TOKEN_EXPIRED when the session's access-token expiry
\* is earlier than now; otherwise it admits the request as authenticated.
C8_DecisionOrder ==
    [][\A req \in BearerRequests :
          Authenticate(req) /\ req.token.signed
          => LET pk == req.token.user_session_pk IN
             IF \/ pk = 0
                \/ pk \notin DOMAIN user_session
                \/ user_session[pk].access_token_state # "VALID"
             THEN resp'.status = 401 /\ resp'.errorCode = "LOGIN_REQUIRED"
             ELSE IF user_session[pk].access_token_expires_at < now
             THEN resp'.status = 401 /\ resp'.errorCode = "TOKEN_EXPIRED"
             ELSE /\ resp'.status = 200
                  /\ resp'.out.authenticated
                  /\ resp'.out.user_session_pk = pk
      ]_vars

\* C9: an access token that was issued before a logout invalidated its
\* session, and has not been issued again since, is never admitted by the
\* gateway (stated for the requests whose session read goes to the database).
C9_RevokedTokenNeverAdmitted ==
    [][\A req \in BearerRequests :
          /\ Authenticate(req)
          /\ req.token \in revoked
          /\ req.token.user_session_pk \notin DOMAIN cache
          => resp'.status # 200
      ]_vars

\* C10: every completed logout of a known identity answers 200 and leaves all
\* sessions of the identity INVALID; when none of them was VALID before (a
\* logout had already invalidated them) the session table is left as it was.
C10_LogoutIdempotent ==
    [][\A t \in issued \cup ForeignTokens :
          Logout(t) /\ t.signed /\ GoogleAuthIds(t.sub) # {}
          => /\ resp'.status = 200
             /\ \A i \in GoogleAuthIds(t.sub) : \A s \in SessionsOf(i) :
                   user_session'[s].access_token_state = "INVALID"
             /\ ~SessionInvalidated(t.sub) => user_session' = user_session
      ]_vars

\* a logout found the identity's session already INVALID and answered 200
C10_Witness ==
    /\ resp.op = "logout"
    /\ resp.status = 200
    /\ ~resp.out.session_invalidated
    /\ resp.req.token \in revoked
    /\ \E i \in GoogleAuthIds(resp.req.token.sub) :
         /\ SessionsOf(i) # {}
         /\ \A s \in SessionsOf(i) : user_session[s].access_token_state = "INVALID"

(* ================= anonymous requests running concurrently =========== *)
\* C11: once no anonymous request is in flight, every counter of every
\* anonymous id equals the number of calls admitted for that id and endpoint:
\* no increment of concurrent admitted requests is lost.
C11_NoLostIncrement ==
    (\A p \in Procs : usage_inflight[p].pc = "idle") =>
        \A a \in DOMAIN unauthenticated_user_api_usage : \A f \in CounterFields :
            unauthenticated_user_api_usage[a][f] = admitted[a][f]

(* ========================= session read path ========================= *)
\* C12: for every stored session S, get_user_session_by_id(S) returns the row
\* as last committed (state, refresh secret, expiries), never an older copy.
C12_ReadPathCoherent ==
    \A session_id \in DOMAIN user_session :
        get_user_session_by_id(session_id) = SelectSession(session_id)

(* ============================ rate limiter =========================== *)
\* the calls check_rate_limit let pass for key with a timestamp in (t - window, t]
AdmittedInWindow(key, t) ==
    {i \in DOMAIN rl_admitted[key] :
        /\ rl_admitted[key][i] > t - window_size_seconds
        /\ rl_admitted[key][i] <= t}

\* C13: for every key and every instant t, at most requests_per_window of the
\* calls check_rate_limit admitted have their timestamp in the trailing
\* window (t - window_size_seconds, t].
C13_WindowNeverExceeded ==
    \A key \in Keys : \A t \in 0 .. MaxTime :
        Cardinality(AdmittedInWindow(key, t)) <= requests_per_window

\* a call is turned away at a full window after the window has slid once:
\* three calls were admitted for the key in all
C13_Witness ==
    \E p \in Procs :
        /\ rl_inflight[p].pc = "done" /\ rl_inflight[p].raised
        /\ Len(rl_admitted[rl_inflight[p].key]) = requests_per_window + 1
        /\ Cardinality(AdmittedInWindow(rl_inflight[p].key, now)) = requests_per_window

Passed(p) == IF rl_inflight[p].raised THEN 0 ELSE 1

Min(a, b) == IF a <= b THEN a ELSE b

\* C14: of n calls for one key made at the same instant with c live
\* timestamps, exactly min(n, max(requests_per_window - c, 0)) are admitted,
\* and the key then holds the c live timestamps and one per admitted call;
\* stated for a call on its own (n = 1) and for two overlapping calls (n = 2).
C14_ConcurrentChecksSerialized ==
    \A p \in Procs :
        /\ rl_inflight[p].pc = "done"
        /\ rl_inflight[p].arrived = rl_inflight[p].current_time
        /\ now = rl_inflight[p].current_time
        => LET key == rl_inflight[p].key
               room == IF requests_per_window > rl_inflight[p].live
                       THEN requests_per_window - rl_inflight[p].live ELSE 0
               stored == Len(ValidTimestamps(rate_limit_data[key], now - window_size_seconds))
           IN /\ rl_inflight[p].overlap = 0 =>
                    /\ Passed(p) = Min(1, room)
                    /\ stored >= rl_inflight[p].live + Passed(p)
              /\ \A q \in Procs \ {p} :
                    /\ rl_inflight[p].overlap = 1 /\ rl_inflight[q].overlap = 1
                    /\ rl_inflight[q].pc = "done" /\ rl_inflight[q].key = key
                    /\ rl_inflight[q].arrived = rl_inflight[q].current_time
                    /\ rl_inflight[q].current_time = now
                    => /\ rl_inflight[q].live = rl_inflight[p].live
                       /\ Passed(p) + Passed(q) = Min(2, room)
                       /\ stored = rl_inflight[p].live + Passed(p) + Passed(q)

\* two overlapping calls for a key holding one live timestamp: one is
\* admitted, the other gets RateLimitError
C14_Witness ==
    \E p \in Procs : \E q \in Procs \ {p} :
        /\ rl_inflight[p].pc = "done" /\ rl_inflight[q].pc = "done"
        /\ rl_inflight[p].overlap = 1 /\ rl_inflight[q].overlap = 1
        /\ rl_inflight[p].key = rl_inflight[q].key
        /\ rl_inflight[p].live = 1 /\ rl_inflight[q].live = 1
        /\ rl_inflight[p].arrived = now /\ rl_inflight[q].arrived = now
        /\ rl_inflight[p].current_time = now /\ rl_inflight[q].current_time = now
        /\ ~rl_inflight[p].raised /\ rl_inflight[q].raised

(* ======================= refresh-token secrets ======================= *)
\* C15: the refresh-token value stored for a session is never one of the
\* plaintext secrets the service has handed to a client.
C15_StoredSecretNeverPlaintext ==
    \A session_id \in DOMAIN user_session :
        user_session[session_id].refresh_token \notin 1 .. (next_secret - 1)

C20_DecodeRoundTrip ==
    call.op = "decode_access_token" =>
        IF call.token \in GeneratedTokens
        THEN IF call.verify_exp /\ call.token.exp < call.at
             THEN call.result.error = "ExpiredSignatureError"
             ELSE /\ call.result.error = ""
                  /\ call.result.payload.sub = call.token.sub
                  /\ call.result.payload.user_session_pk = call.token.user_session_pk
                  /\ call.result.payload.exp = call.token.exp
        ELSE ~call.token.signed => call.result.error = "JWTError"

\* an expired token has been decoded without the expiry check
C20_Witness ==
    /\ call.op = "decode_access_token"
    /\ call.token \in GeneratedTokens
    /\ ~call.verify_exp
    /\ call.token.exp < call.at
    /\ call.result.error = ""
    /\ call.result.payload.exp = call.token.exp

(* ================================ login ============================== *)
LoginLeavesNoTrace ==
    /\ resp'.status = 401
    /\ resp'.out.access_token = NoToken
    /\ resp'.out.set_cookie = 0
    /\ google_user_auth_info' = google_user_auth_info
    /\ user_session' = user_session
    /\ issued' = issued
    /\ next_secret' = next_secret

\* C16: a login whose assertion is correctly signed but names another
\* audience than the configured client id is answered 401, creates or updates
\* no identity and no session, and issues no access token and no cookie.
C16_AudienceMismatchRejected ==
    [][\A id_token \in IdTokens :
          LoginRequest(id_token) /\ id_token.valid /\ id_token.aud # GoogleClientId
          => LoginLeavesNoTrace
      ]_vars

\* a known user with a session presents a signed assertion for another
\* audience and is turned away
C16_Witness ==
    /\ resp.op = "login" /\ resp.status = 401
    /\ resp.req.id_token.valid
    /\ resp.req.id_token.aud # GoogleClientId
    /\ resp.req.id_token.sub \in Subs
    /\ Len(user_session) = 1

\* C17: a login whose verified assertion lacks the sub claim or lacks the
\* email claim is rejected and creates no identity, session or token.
C17_MissingClaimRejected ==
    [][\A id_token \in IdTokens :
          /\ LoginRequest(id_token)
          /\ id_token.valid /\ id_token.aud = GoogleClientId
          /\ id_token.sub = "" \/ id_token.email = ""
          => LoginLeavesNoTrace
      ]_vars

(* ====================== new anonymous identities ===================== *)
\* C18: a request with neither access token nor anonymous id to a mapped
\* endpoint E whose ceiling is resolved is admitted, appends exactly one usage
\* record whose counter for E is 1 and whose other counters are 0, leaves the
\* existing records as they were, and returns the new id flagged as new.
C18_NewIdentitySeeded ==
    [][\A req \in AnonRequests :
          Authenticate(req) /\ req.anon = 0 /\ ~Unresolved(req.path)
          => LET new_id == Len(unauthenticated_user_api_usage) + 1
                 api_name == get_api_counter_field_and_limit(req.path)[1]
             IN /\ resp'.status = 200
                /\ ~resp'.out.authenticated
                /\ resp'.out.unauthenticated_user_id = new_id
                /\ resp'.out.is_new_unauthenticated_user
                /\ Len(unauthenticated_user_api_usage') = new_id
                /\ \A a \in DOMAIN unauthenticated_user_api_usage :
                      unauthenticated_user_api_usage'[a] = unauthenticated_user_api_usage[a]
                /\ DOMAIN unauthenticated_user_api_usage'[new_id] = CounterFields
                /\ \A f \in CounterFields :
                      unauthenticated_user_api_usage'[new_id][f] = IF f = api_name THEN 1 ELSE 0
      ]_vars

\* a second identity has just been created by a first call to the ask endpoint
C18_Witness ==
    /\ IsAnonResponse /\ resp.status = 200
    /\ resp.req.anon = 0 /\ resp.req.path = "/api/v2/ask"
    /\ resp.out.is_new_unauthenticated_user
    /\ resp.out.unauthenticated_user_id = 2
    /\ Len(unauthenticated_user_api_usage) = 2
    /\ unauthenticated_user_api_usage[2]["ask_api_count_so_far"] = 1
    /\ unauthenticated_user_api_usage[2]["simplify_api_count_so_far"] = 0

(* ===================== refresh after TOKEN_EXPIRED =================== *)
\* C21: when the gateway rejects the token of session S with TOKEN_EXPIRED and
\* a refresh for S then succeeds, the session's access-token expiry is not
\* earlier than now, its state is VALID, and the gateway admits the next
\* request bearing the token of S.
C21_RefreshEndsTokenExpired ==
    [][\A t \in issued : \A c \in Cookies \ {0} :
          LET req == [NoRequest EXCEPT !.token = t, !.path = "/api/v2/simplify"] IN
          /\ authenticate_bearer(req).errorCode = "TOKEN_EXPIRED"
          /\ Refresh(t, c)
          /\ resp'.status = 200
          => /\ user_session'[t.user_session_pk].access_token_expires_at >= now'
             /\ user_session'[t.user_session_pk].access_token_state = "VALID"
             /\ authenticate_bearer(req)'.status = 200
      ]_vars

(* =================== authenticated traffic and the ledger ============ *)
\* C22: a gateway request carrying an access token, admitted or rejected,
\* with or without an X-Unauthenticated-User-Id next to it, creates no
\* anonymous identity and changes no anonymous counter.
C22_BearerLeavesLedgerAlone ==
    [][\A req \in MixedRequests :
          Authenticate(req) /\ req.token # NoToken
          => /\ unauthenticated_user_api_usage' = unauthenticated_user_api_usage
             /\ ~resp'.out.is_new_unauthenticated_user
             /\ resp'.out.unauthenticated_user_id = 0
      ]_vars

\* a request bearing the token of a logged-out session next to the id of an
\* anonymous identity still below its ceiling has been turned away
C22_Witness ==
    /\ resp.op = "authenticate" /\ resp.status = 401
    /\ resp.req.token \in revoked
    /\ resp.req.anon \in DOMAIN unauthenticated_user_api_usage
    /\ resp.req.path = "/api/v2/simplify"
    /\ unauthenticated_user_api_usage[resp.req.anon]["simplify_api_count_so_far"] = 1
    /\ settings["simplify_api_max_limit"] = MaxLimit

C24_InvalidUntilLogin ==
    [][\A s \in DOMAIN user_session :
          user_session[s].access_token_state = "INVALID" =>
              \/ user_session'[s].access_token_state = "INVALID"
              \/ /\ resp'.op = "login" /\ resp'.status = 200
                 /\ resp'.out.user_session_pk = s
                 /\ \E sub \in Subs : Login(sub)
      ]_vars

\* a refresh for a logged-out session has been answered 200 from a cached
\* copy of the session, and the stored state is INVALID all the same
C24_Witness ==
    /\ resp.op = "refresh" /\ resp.status = 200
    /\ resp.req.token.user_session_pk \in DOMAIN user_session
    /\ LET row == user_session[resp.req.token.user_session_pk] IN
         /\ row.access_token_state = "INVALID"
         /\ row.refresh_token = resp.out.set_cookie

C26_ReloginReusesLatestSession ==
    [][\A sub \in Subs :
          Login(sub) /\ GoogleAuthIds(sub) # {} =>
              LET ids == GoogleAuthIds(sub)
                  i == CHOOSE x \in ids : \A j \in ids : x <= j
                  s == resp'.out.user_session_pk
              IN SessionsOf(i) # {} =>
                   /\ resp'.status = 200
                   /\ Len(user_session') = Len(user_session)
                   /\ s \in LatestSessions(i)
                   /\ user_session'[s].access_token_state = "VALID"
                   /\ user_session'[s].auth_vendor_id = i
                   /\ user_session'[s].refresh_token = resp'.out.set_cookie
                   /\ user_session'[s].refresh_token # user_session[s].refresh_token
                   /\ user_session'[s].refresh_token_expires_at = now + RefreshTTL
                   /\ user_session'[s].access_token_expires_at = now + AccessTTL
                   /\ \A r \in DOMAIN user_session \ {s} : user_session'[r] = user_session[r]
      ]_vars

\* an identity with two sessions has logged in again: the session logged out
\* last was reused and is VALID, the older one is as the logout left it
C26_Witness ==
    /\ resp.op = "login" /\ resp.status = 200
    /\ Len(user_session) = 3
    /\ resp.out.user_session_pk = 2
    /\ user_session[2].auth_vendor_id = 1
    /\ user_session[2].access_token_state = "VALID"
    /\ user_session[2].refresh_token = resp.out.set_cookie
    /\ user_session[2].updated_at = now
    /\ user_session[1].access_token_state = "INVALID"
    /\ user_session[1].updated_at < now

(* ==================== rotation of the refresh secret ================= *)
\* C27: update_user_session_refresh_token(session_id) stores the secret it
\* returns and a new refresh expiry in the named session and changes no other
\* session; with an access-token expiry it also stores that expiry and the
\* state VALID, without one it leaves state and access-token expiry alone.
C27_RotationFrame ==
    [][\A session_id \in DOMAIN user_session :
       \A access_token_expires_at \in {NoneTime, get_token_expiry(now)} :
          UpdateRefreshTokenCall(session_id, access_token_expires_at) =>
              /\ DOMAIN user_session' = DOMAIN user_session
              /\ \A r \in DOMAIN user_session \ {session_id} :
                    user_session'[r] = user_session[r]
              /\ user_session'[session_id].refresh_token = call'.result[1]
              /\ user_session'[session_id].refresh_token # user_session[session_id].refresh_token
              /\ user_session'[session_id].refresh_token_expires_at = call'.result[2]
              /\ call'.result[2] = now + RefreshTTL
              /\ user_session'[session_id].auth_vendor_id = user_session[session_id].auth_vendor_id
              /\ IF access_token_expires_at # NoneTime
                 THEN /\ user_session'[session_id].access_token_state = "VALID"
                      /\ user_session'[session_id].access_token_expires_at =
                            access_token_expires_at
                 ELSE /\ user_session'[session_id].access_token_state =
                            user_session[session_id].access_token_state
                      /\ user_session'[session_id].access_token_expires_at =
                            user_session[session_id].access_token_expires_at
      ]_vars

\* the secret of an INVALID session has been rotated without an access-token
\* expiry next to a VALID session of the same identity: the session is still
\* INVALID and its access-token expiry, now in the past, is the old one
C27_Witness ==
    /\ call.op = "update_user_session_refresh_token"
    /\ call.access_token_expires_at = NoneTime
    /\ call.session_id = 2
    /\ Len(user_session) = 3
    /\ user_session[2].refresh_token = call.result[1]
    /\ user_session[2].access_token_state = "INVALID"
    /\ user_session[2].access_token_expires_at < now
    /\ user_session[2].updated_at = now
    /\ user_session[1].auth_vendor_id = user_session[2].auth_vendor_id
    /\ user_session[1].access_token_state = "VALID"
    /\ user_session[1].refresh_token = MaxSecrets + 1

(* ========================= rejected refreshes ======================== *)
\* C28: a refresh request that is rejected, for a missing cookie, an
\* undecodable token, an unknown session, a session not VALID, a passed
\* refresh expiry or a secret other than the stored one, leaves the session
\* table as it was, hands out no secret and sets no cookie.
C28_RejectedRefreshChangesNothing ==
    [][\A t \in issued \cup ForeignTokens : \A c \in Cookies :
          Refresh(t, c) /\ resp'.status # 200 =>
              /\ resp'.status = 401
              /\ user_session' = user_session
              /\ next_secret' = next_secret
              /\ resp'.out.set_cookie = 0
      ]_vars

\* a refresh presenting a rotated-out secret for a VALID, unexpired session
\* has been rejected
C28_Witness ==
    /\ resp.op = "refresh" /\ resp.status = 401
    /\ resp.detail = "Invalid refresh token"
    /\ resp.req.cookie # 0
    /\ resp.req.token.user_session_pk \in DOMAIN user_session
    /\ LET row == user_session[resp.req.token.user_session_pk] IN
         /\ row.access_token_state = "VALID"
         /\ row.refresh_token_expires_at >= now
         /\ resp.req.cookie < row.refresh_token
         /\ next_secret = row.refresh_token + 1

(* ================= counters count the admitted calls ================= *)
\* C29: when anonymous requests are handled one after another, the stored
\* counter of every anonymous id for every endpoint equals the number of
\* calls of that id to that endpoint the gateway admitted (the id-creating
\* call included); a rejected request therefore changes no counter.
C29_CounterCountsAdmitted ==
    /\ DOMAIN admitted = DOMAIN unauthenticated_user_api_usage
    /\ \A a \in DOMAIN unauthenticated_user_api_usage : \A f \in CounterFields :
          /\ unauthenticated_user_api_usage[a][f] = admitted[a][f]
          /\ admitted[a][f] <= attempts[a][f]

\* an id admitted twice at a ceiling of 2 has then been turned away: three
\* calls made, two admitted, counter 2
C29_Witness ==
    /\ IsAnonResponse /\ resp.status = 429
    /\ resp.req.anon \in DOMAIN unauthenticated_user_api_usage
    /\ resp.req.path = "/api/v2/simplify"
    /\ settings["simplify_api_max_limit"] = 2
    /\ attempts[resp.req.anon]["simplify_api_count_so_far"] = 3
    /\ admitted[resp.req.anon]["simplify_api_count_so_far"] = 2
    /\ unauthenticated_user_api_usage[resp.req.anon]["simplify_api_count_so_far"] = 2

(* ======================= concurrent rotations ======================== *)
\* C30: after two refresh requests for one session that were in flight
\* together have both rotated the secret, the stored secret is the one
\* returned by one of them, stored with that same call's refresh expiry, and
\* a refresh presenting the secret the other one returned is rejected.
C30_LastWriteWins ==
    \A p \in Procs : \A q \in Procs \ {p} :
        /\ inflight[p].pc = "done" /\ inflight[q].pc = "done"
        /\ inflight[p].status = 200 /\ inflight[q].status = 200
        /\ inflight[p].overlap /\ inflight[q].overlap
        /\ inflight[p].token.user_session_pk = inflight[q].token.user_session_pk
        /\ user_session[inflight[q].token.user_session_pk].refresh_token # inflight[p].set_cookie
        => LET s == inflight[q].token.user_session_pk IN
           /\ user_session[s].refresh_token = inflight[q].set_cookie
           /\ user_session[s].refresh_token_expires_at = inflight[q].expires
           /\ refresh_response(inflight[p].token, inflight[p].set_cookie,
                               get_user_session_by_id(s), next_secret).status = 401

(* ================= device-token scheme, concurrency ================== *)
\* the callers whose latest request is a finished google_login
DoneLogins == {p \in Procs : device_inflight[p].pc = "done"
                             /\ device_inflight[p].op = "google_login"}

\* C31: after any logins for one subject, two concurrent first logins
\* included, the subject has exactly one users row and every login for it was
\* answered with the id of that row
C31_OneIdentityPerSubject ==
    /\ \A sub \in DeviceSubs : Cardinality(UserIds(sub)) <= 1
    /\ \A p \in DoneLogins :
          LET f == device_inflight[p] IN
          /\ f.status = 200
          /\ UserIds(f.req.id_token.sub) = {f.out.user_id}

\* the callers whose latest request is a finished refresh_token
DoneRefreshes == {p \in Procs : device_inflight[p].pc = "done"
                                /\ device_inflight[p].op = "refresh_token"}

\* C32: of two refresh requests presenting the same refresh token at most
\* one succeeds, and a token a successful refresh was given is revoked
C32_OneRefreshPerToken ==
    /\ \A p \in DoneRefreshes : \A q \in DoneRefreshes \ {p} :
          device_inflight[p].req = device_inflight[q].req
              => ~(device_inflight[p].status = 200 /\ device_inflight[q].status = 200)
    /\ \A p \in DoneRefreshes :
          device_inflight[p].status = 200
              => refresh_tokens[device_inflight[p].req.refresh_token].revoked_at # NoneTime

\* the refresh tokens of a user on a device that are neither revoked nor expired
UsableTokens(user_id, device_id) ==
    {r \in TokenRows(device_id) : refresh_tokens[r].user_id = user_id}

\* C34: a user holds at most one usable refresh token per device
C34_OneUsableTokenPerDevice ==
    \A user_id \in DOMAIN users : \A device_id \in Devices :
        Cardinality(UsableTokens(user_id, device_id)) <= 1

(* ================== ceilings of the anonymous ledger ================== *)
\* C33: for every endpoint with a configured ceiling and every anonymous id,
\* the calls of that id to that endpoint the gateway admitted, the id-creating
\* call included, never number more than the ceiling
C33_AdmittedWithinCeiling ==
    \A a \in DOMAIN admitted : \A path \in Paths :
        LET api_counter_field == get_api_counter_field_and_limit(path)[1]
            max_limit == get_api_counter_field_and_limit(path)[2]
        IN (api_counter_field # "" /\ max_limit # NoneLimit)
               => admitted[a][api_counter_field] <= max_limit

(* ==================== rejected rate-limit checks ===================== *)
\* C35: when check_rate_limit decides on a call, it rejects the call exactly
\* when requests_per_window or more of the key's admitted timestamps are
\* newer than now - window_size_seconds (one exactly a window old is
\* expired); a rejected call ends there, records no timestamp and leaves the
\* stored data of every key as it was.
C35_RejectionRecordsNothing ==
    [][\A p \in Procs :
          (rl_inflight[p].pc = "locked" /\ rl_inflight'[p].pc # "locked") =>
              LET key == rl_inflight[p].key
                  live == {i \in DOMAIN rl_admitted[key] :
                              rl_admitted[key][i] > now - window_size_seconds}
              IN /\ rl_inflight'[p].raised <=> Cardinality(live) >= requests_per_window
                 /\ rl_inflight'[p].raised <=> rl_inflight'[p].pc = "done"
                 /\ rl_inflight'[p].raised =>
                        /\ rate_limit_data' = rate_limit_data
                        /\ rl_admitted' = rl_admitted]_vars

\* a caller turned away at a full window is admitted by a later check, made
\* when the oldest admitted timestamp is exactly one window old
C35_Witness ==
    \E p \in Procs : \E q \in Procs \ {p} :
        /\ rl_inflight[p].pc = "done" /\ rl_inflight[p].raised
        /\ rl_inflight[q].pc = "done" /\ ~rl_inflight[q].raised
        /\ rl_inflight[q].key = rl_inflight[p].key
        /\ rl_inflight[q].current_time > rl_inflight[p].current_time
        /\ Len(rl_admitted[rl_inflight[q].key]) = requests_per_window + 1
        /\ rl_admitted[rl_inflight[q].key][1] =
               rl_inflight[q].current_time - window_size_seconds
        /\ rl_admitted[rl_inflight[q].key][requests_per_window + 1] =
               rl_inflight[q].current_time

(* ==================== logout with an expired token =================== *)
\* C36: a logout presenting a validly signed access token of a known identity
\* whose exp claim lies in the past answers 200 for the token's subject and
\* session, and every session of the subject that was VALID is INVALID
\* afterwards.
C36_ExpiredTokenLogsOut ==
    [][\A t \in issued \cup ForeignTokens :
          (t.signed /\ t.exp < now /\ GoogleAuthIds(t.sub) # {} /\ resp'.op = "logout"
             /\ Logout(t))
          => /\ resp'.status = 200
             /\ resp'.out.access_token.sub = t.sub
             /\ resp'.out.user_session_pk = t.user_session_pk
             /\ \A i \in GoogleAuthIds(t.sub) : \A s \in SessionsOf(i) :
                   /\ user_session'[s].access_token_state = "INVALID"
                   /\ user_session[s].access_token_state = "VALID"
                          => user_session'[s].updated_at = now
      ]_vars

\* a logout with an expired token has ended two sessions of one identity
C36_Witness ==
    /\ resp.op = "logout"
    /\ resp.status = 200
    /\ resp.out.session_invalidated
    /\ resp.req.token.exp < now
    /\ \E i \in GoogleAuthIds(resp.req.token.sub) :
         /\ Cardinality(SessionsOf(i)) = 2
         /\ \A s \in SessionsOf(i) :
               /\ user_session[s].access_token_state = "INVALID"
               /\ user_session[s].updated_at = now

(* ===================== a login's token is admitted =================== *)
\* C37: a gateway request bearing the access token of a login, made with no
\* logout since that login and before the access-token expiry of the
\* token's session has passed, is admitted as authenticated with the
\* user_session_pk of the login.
C37_LoginTokenAdmitted ==
    [][\A req \in BearerRequests :
          (/\ req.token \in issued \ revoked
           /\ user_session[req.token.user_session_pk].access_token_state = "VALID"
           /\ user_session[req.token.user_session_pk].access_token_expires_at >= now
           /\ req.token.exp >= now
           /\ Authenticate(req))
          => /\ resp'.status = 200
             /\ resp'.out.authenticated
             /\ resp'.out.user_session_pk = req.token.user_session_pk
      ]_vars

====
